---- MODULE Spec2Model ----
(***************************************************************************)
(* Model of edalib's Fibonacci heap (blocks/manu343726/edalib/FibHeap.hpp) *)
(* instantiated as in test.cpp: T = int, compare = operator<,              *)
(* Allocator = std::allocator.  EDALIB_FIBHEAP_CHECKS is not defined (the  *)
(* header's default), so every _check_integrity_* function returns on its  *)
(* first line; the plain assert() calls are active unless NDEBUG.          *)
(*                                                                         *)
(* Pointers are node identifiers: the k-th node created by the factory is  *)
(* k, nullptr is nil.  A heap is a record h that the private member        *)
(* functions transform; the actions load it from the variables, apply the  *)
(* public member function, and store the result.                           *)
(*                                                                         *)
(* std::size_t is 64 bits wide; TLC's integers are 32 bits wide.  A size_t *)
(* value is therefore written as its representative modulo 2^64 of least   *)
(* absolute value: -k stands for 2^64 - k.  ++ and -- are then + 1 and - 1 *)
(* exactly (0 - 1 = -1 is the wrap to 2^64 - 1, -1 + 1 = 0 the wrap back), *)
(* and a negative representative is a value above every container size.    *)
(***************************************************************************)
EXTENDS Integers, Sequences, FiniteSets, TLC

VARIABLES
    node,           \* node[k]: the impl::node<T> record of the k-th node created
    destroyed,      \* nodes given back to the allocator by node_factory::destroy
    _min,           \* FibHeap::_min
    _size,          \* FibHeap::_size
    _allocations,   \* node_factory::_allocations
    _deallocations, \* node_factory::_deallocations
    NDEBUG,         \* whether the build defines NDEBUG (assert() compiled out)
    status,         \* how the last call ended, see Statuses
    lastOp,         \* the public member function called last (an insert whose
                    \* allocation fails is told apart)
    ret,            \* the key the last call returned (none: nothing returned)
    visited,        \* the keys the last foreach handed to its function, in order
    queue,          \* test.cpp's reference priority queue
    expect,         \* what the reference queue answered to the last call
    extracted,      \* the values extract_min returned so far, in order
    phase,          \* "fill": only inserts so far; "drain": then only extract_min; "mixed"
    shadow,         \* a second heap, newly constructed when the first has been
                    \* emptied and given the same calls from then on (NoShadow
                    \* before, and in runs that do not compare)
    C,              \* the container class template under test ("": none)
    CA,             \* the container adapter class template ("": the bare container)
    mem,            \* the free store of the containers: address -> array or node
    s,              \* test.cpp's container s
    t,              \* test.cpp's container t
    pushes,         \* the number of push calls made on s
    reference,      \* the reference sequence: what s is to hold, front first
    base,           \* the element the next push at the back of s takes
    _m,             \* BaseSet::_m, the HashTable of the set under test
    timing_stack,   \* timing_manager::timing_stack
    timing_registry,\* timing_manager::timing_registry
    _on_start,      \* timing_manager::_on_start ("": empty)
    _on_finish,     \* timing_manager::_on_finish ("": empty)
    clock,          \* the last reading of timing_manager::clock
    trace           \* what the last call of the heap recorded at the places its
                    \* internal functions are timed at (<< >>: not recorded)

vars == << node, destroyed, _min, _size, _allocations, _deallocations, NDEBUG,
           status, lastOp, ret, visited, queue, expect, extracted, phase, shadow,
           C, CA, mem, s, t, pushes, reference, base, _m,
           timing_stack, timing_registry, _on_start, _on_finish, clock, trace >>

\* The variables of the timing manager.
timing == << timing_stack, timing_registry, _on_start, _on_finish, clock >>

\* The variables of the containers and of the timing manager, which the
\* heap's calls leave alone (SCOPED_CLOCK is empty unless ENABLE_TIMING is defined).
containers == << C, CA, mem, s, t, pushes, reference, base, _m, timing >>

\* The variables of the heap, which the containers' calls leave alone.
heap == << node, destroyed, _min, _size, _allocations, _deallocations, NDEBUG,
           queue, extracted, phase, shadow, trace >>

\* The variables the linear containers' calls leave alone.
others == << heap, _m, timing >>

\* timing.cpp: the static members of timing_manager, default constructed.
TimingIdle ==
    /\ timing_stack = << >>
    /\ timing_registry = << >>
    /\ _on_start = ""
    /\ _on_finish = ""
    /\ clock = 0

(***************************************************************************)
(* Bounds                                                                  *)
(***************************************************************************)
MaxKey == 3         \* keys are 1..MaxKey
MaxInserts == 6     \* at most this many insert calls in a behaviour
MaxVisits == 40     \* node visits after which a traversal is taken not to terminate

Keys == 1..MaxKey

nil == 0
none == 0

\* How a call can end:
\*   "ok"         it returned
\*   "abort"      an assert() failed (build without NDEBUG): the process is gone
\*   "undefined"  it ran into undefined behaviour (null or dangling pointer
\*                dereferenced, out-of-bounds registry access, double free)
\*   "exception"  it left by an exception (std::bad_alloc out of the registry)
\*   "diverge"    its traversal never ends (endless loop or endless recursion)
Statuses == {"ok", "abort", "undefined", "exception", "diverge"}

(***************************************************************************)
(* Compare, as test.cpp instantiates it: a < b                             *)
(***************************************************************************)
_compare(a, b) == a < b

\* A pointer the code may dereference: not null and not yet deallocated.
Valid(h, p) == p # nil /\ p \in DOMAIN h.node /\ p \notin h.destroyed

Fault(h, how) == [h EXCEPT !.status = how]

\* assert(cond) that failed: the process aborts, unless NDEBUG compiled it out.
AssertFailed(h) == Fault(h, "abort")

\* A place inside a call that got there: the place, the nodes x and y it is
\* about, and the nodes, the registry and _min as they are there.
note(h, at, x, y) ==
    IF h.status # "ok" \/ ~h.recording THEN h
    ELSE [h EXCEPT !.log = Append(@, [at |-> at, x |-> x, y |-> y, node |-> h.node,
                                      destroyed |-> h.destroyed, a |-> h.a,
                                      _min |-> h._min])]

(***************************************************************************)
(* node_factory                                                            *)
(***************************************************************************)
\* _alloc.allocate(1): std::allocator leaves by std::bad_alloc when it cannot
\* provide the storage.
allocate(h, storage) == IF storage THEN h ELSE Fault(h, "exception")

\* _alloc.construct(node, args...); _allocations++;  only key is initialised.
construct(h, key) ==
    IF h.status # "ok" THEN h
    ELSE [h EXCEPT !.node = Append(@, [key |-> key, parent |-> nil, child |-> nil,
                                       left |-> nil, right |-> nil,
                                       degree |-> 0, modified |-> FALSE]),
                   !._allocations = @ + 1]

\* create with the allocation counted before the storage is asked for.
create_counted_first(h, key, storage) ==
    construct(allocate([h EXCEPT !._allocations = @ + 1], storage), key)

\* create(): allocate and construct one node, then count it.
create(h, key, storage) == construct(allocate(h, storage), key)

\* destroy(): no-op on nullptr; destroying a node twice is a double free.
destroy(h, n) ==
    IF n = nil THEN h
    ELSE IF ~Valid(h, n) THEN Fault(h, "undefined")
    ELSE [h EXCEPT !.destroyed = @ \cup {n}, !._deallocations = @ + 1]

alive(h) == h._allocations - h._deallocations

good(h) == h._allocations >= h._deallocations

(***************************************************************************)
(* _add_to_rootschain(root, n): splice n in at the left of root            *)
(***************************************************************************)
_add_to_rootschain(h, root, n) ==
    IF h.status # "ok" THEN h
    ELSE IF root = n THEN h
    ELSE IF ~Valid(h, root) THEN Fault(h, "undefined")
    ELSE IF h.node[root].left = n \/ h.node[root].right = n THEN h
    ELSE IF ~Valid(h, h.node[root].left) \/ ~Valid(h, n) THEN Fault(h, "undefined")
    ELSE LET n1 == [h.node EXCEPT ![h.node[root].left].right = n]
             n2 == [n1 EXCEPT ![n].left = n1[root].left]
             n3 == [n2 EXCEPT ![n].right = root]
             n4 == [n3 EXCEPT ![root].left = n]
             n5 == [n4 EXCEPT ![n].parent = n4[root].parent]
             p  == n5[root].parent
         IN  IF p = nil THEN [h EXCEPT !.node = n5]
             ELSE IF ~Valid(h, p) THEN Fault([h EXCEPT !.node = n5], "undefined")
             ELSE [h EXCEPT !.node = [n5 EXCEPT ![p].degree = @ + 1]]

(***************************************************************************)
(* _remove_from_rootschain(root): unlink root from its sibling list        *)
(***************************************************************************)
_remove_from_rootschain(h, root) ==
    IF h.status # "ok" THEN h
    ELSE IF root = nil /\ ~NDEBUG THEN AssertFailed(h)
    ELSE IF ~Valid(h, root) THEN Fault(h, "undefined")
    ELSE LET right == h.node[root].right
             left  == h.node[root].left
         IN  IF ~Valid(h, left) \/ ~Valid(h, right) THEN Fault(h, "undefined")
             ELSE LET n1 == [h.node EXCEPT ![left].right = right]
                      n2 == [n1 EXCEPT ![right].left = left]
                      n3 == [n2 EXCEPT ![root].left = root]
                      n4 == [n3 EXCEPT ![root].right = root]
                      p  == n4[root].parent
                  IN  IF p = nil THEN [h EXCEPT !.node = n4]
                      ELSE IF ~Valid(h, p) THEN Fault([h EXCEPT !.node = n4], "undefined")
                      ELSE [h EXCEPT !.node = [n4 EXCEPT ![p].degree = @ - 1]]

(***************************************************************************)
(* _add_child(parent, child)                                               *)
(***************************************************************************)
\* The first branch: parent->child = child; child->left = child->right = child.
\* (degree is left as it is.)
first_child(h, parent, child) ==
    IF h.node[parent].degree # 0 /\ ~NDEBUG THEN AssertFailed(h)
    ELSE [h EXCEPT !.node =
            [[[h.node EXCEPT ![parent].child = child]
                      EXCEPT ![child].left = child]
                      EXCEPT ![child].right = child]]

\* child->parent = parent;
set_parent(h, parent, child) ==
    IF h.status # "ok" THEN h
    ELSE [h EXCEPT !.node[child].parent = parent]

_add_child(h, parent, child) ==
    IF h.status # "ok" THEN h
    ELSE IF ~Valid(h, parent) \/ ~Valid(h, child) THEN Fault(h, "undefined")
    ELSE set_parent(IF h.node[parent].child = nil
                    THEN first_child(h, parent, child)
                    ELSE _add_to_rootschain(h, h.node[parent].child, child),
                    parent, child)

(***************************************************************************)
(* _link(x, y): make root y a child of root x                              *)
(***************************************************************************)
\* y->modified = false;
clear_modified(h, y) ==
    IF h.status # "ok" THEN h
    ELSE [h EXCEPT !.node[y].modified = FALSE]

_link(h, x, y) ==
    IF h.status # "ok" THEN h
    ELSE IF x = y THEN h
    ELSE note(clear_modified(_add_child(_remove_from_rootschain(note(h, "_link", x, y),
                                                                y),
                                        x, y), y),
              "_link done", x, y)

(***************************************************************************)
(* _consolidate: the registry                                              *)
(***************************************************************************)
\* (std::size_t)(2*std::log2(size())): the largest k with 2^k <= size^2.
RECURSIVE Log2Floor(_)
Log2Floor(n) == IF n < 2 THEN 0 ELSE 1 + Log2Floor(n \div 2)

RegistryInitialSize(size) == IF size < 0 THEN 128 ELSE Log2Floor(size * size)

Nulls(k) == [i \in 1..k |-> nil]

\* registry(degree): setup_registry(degree), then assert(a.size() > degree),
\* then a[degree].  Slot d of the std::vector is h.a[d + 1].
\*   degree + 1 wraps to 0 (degree = 2^64 - 1): nothing is pushed, the
\*     assertion fails, and without it a[degree] is out of bounds;
\*   degree + 1 is a value near 2^64: push_back runs until the allocation
\*     fails and std::bad_alloc leaves the call;
\*   otherwise the vector is padded with nullptr up to degree + 1 entries.
\* The access is recorded as "a[degree]" with the registry as it is set up.
registry(h, degree) ==
    IF h.status # "ok" THEN h
    ELSE IF degree + 1 = 0
         THEN Fault(note(h, "a[degree]", nil, degree),
                    IF NDEBUG THEN "undefined" ELSE "abort")
    ELSE IF degree + 1 < 0 THEN Fault(h, "exception")
    ELSE IF Len(h.a) < degree + 1
         THEN note([h EXCEPT !.a = @ \o Nulls(degree + 1 - Len(@))], "a[degree]", nil, degree)
         ELSE note(h, "a[degree]", nil, degree)

\* The while loop of the per-root step: on a collision at slot degree, link
\* the two nodes (the one that compares less becomes the parent), clear the
\* slot and go on with degree + 1; store x in the first free slot.
RECURSIVE registry_loop(_, _, _)

\* registry(degree) = nullptr; degree++; and the loop test again.
next_degree(h, x, degree) ==
    IF h.status # "ok" THEN h
    ELSE registry_loop([h EXCEPT !.a[degree + 1] = nil], x, degree + 1)

\* The loop test and body with the nodes swapped when x compares less.
collision_swapped(h, x, degree) ==
    IF h.status # "ok" THEN h
    ELSE IF h.a[degree + 1] = nil
         THEN note([h EXCEPT !.a[degree + 1] = x], "registry(degree) = x", x, degree)
    ELSE IF ~Valid(h, x) \/ ~Valid(h, h.a[degree + 1]) THEN Fault(h, "undefined")
    ELSE IF _compare(h.node[x].key, h.node[h.a[degree + 1]].key)
         THEN next_degree(_link(h, h.a[degree + 1], x), h.a[degree + 1], degree)
         ELSE next_degree(_link(h, x, h.a[degree + 1]), x, degree)

\* The loop test and body, the registry being set up for degree.
collision(h, x, degree) ==
    IF h.status # "ok" THEN h
    ELSE IF h.a[degree + 1] = nil
         THEN note([h EXCEPT !.a[degree + 1] = x], "registry(degree) = x", x, degree)
    ELSE IF ~Valid(h, x) \/ ~Valid(h, h.a[degree + 1]) THEN Fault(h, "undefined")
    ELSE IF _compare(h.node[h.a[degree + 1]].key, h.node[x].key)
         THEN next_degree(_link(h, h.a[degree + 1], x), h.a[degree + 1], degree)
         ELSE next_degree(_link(h, x, h.a[degree + 1]), x, degree)

registry_loop(h, x, degree) == collision(registry(h, degree), x, degree)

\* The lambda _consolidate hands to do_foreach.
consolidate_step(h, root) ==
    IF ~Valid(h, root) THEN Fault(h, "undefined")
    ELSE registry_loop(note(h, "x = root", root, nil), root, h.node[root].degree)

(***************************************************************************)
(* Traversals.  The function object is named by mode:                      *)
(*   "consolidate"  _consolidate's per-root step                           *)
(*   "collect"      append the node to h.out (foreach, integrity checks)   *)
(*   "destroy"      _factory.destroy(node) (the destructor)                *)
(*   "contains"     exists = n->key == e (contains)                        *)
(***************************************************************************)
f(h, mode, n) ==
    CASE mode = "consolidate" -> consolidate_step(h, n)
      [] mode = "collect"     -> [h EXCEPT !.out = Append(@, n)]
      [] mode = "destroy"     -> destroy(h, n)
      [] mode = "contains"    -> [h EXCEPT !.exists = (h.node[n].key = h.e)]

\* do_foreach's condition: [](node* n){ return true; }
\* contains' condition:    [&](node* n){ return !exists; }
condition(h, mode, n) == IF mode = "contains" THEN ~h.exists ELSE TRUE

\* do_foreach_while(start, f, condition).  Its call stack is h.stack: the
\* entry << start, n >> is a do-while loop over the sibling list entered at
\* start whose next iteration is at n; the innermost call comes first.
\* One iteration reads child and right before f(n) runs, then recurses into
\* child, then goes on at right unless right is start again.

\* After f(n): do_foreach_while(child, ...); node = right; while (node != start).
descend(h, start, child, right) ==
    IF h.status # "ok" THEN h
    ELSE [h EXCEPT !.stack =
            (IF child = nil THEN << >> ELSE << << child, child >> >>)
            \o (IF right = start THEN << >> ELSE << << start, right >> >>)
            \o Tail(@)]

visit(h, mode) ==
    IF h.fuel = 0 THEN Fault(h, "diverge")
    ELSE IF ~Valid(h, Head(h.stack)[2]) THEN Fault(h, "undefined")
    ELSE IF ~condition(h, mode, Head(h.stack)[2]) THEN [h EXCEPT !.stack = Tail(@)]
    ELSE descend(f([h EXCEPT !.fuel = @ - 1], mode, Head(h.stack)[2]),
                 Head(h.stack)[1],
                 h.node[Head(h.stack)[2]].child,
                 h.node[Head(h.stack)[2]].right)

RECURSIVE do_foreach_while(_, _)
do_foreach_while(h, mode) ==
    IF h.status # "ok" \/ h.stack = << >> THEN h
    ELSE do_foreach_while(visit(h, mode), mode)

do_foreach(h, mode, start) ==
    IF start = nil THEN h
    ELSE do_foreach_while([h EXCEPT !.fuel = MaxVisits,
                                    !.stack = << << start, start >> >>], mode)

\* do_forwards(child, [&](node* sibling){ _add_to_rootschain(_min, sibling); })
\* from the iteration at n on: next is read before the node is moved.
RECURSIVE do_forwards(_, _, _)

\* n = next; while (n != start)
forwards_next(h, start, next) ==
    IF h.status # "ok" \/ next = start THEN h
    ELSE do_forwards(h, start, next)

do_forwards(h, start, n) ==
    IF h.status # "ok" THEN h
    ELSE IF h.fuel = 0 THEN Fault(h, "diverge")
    ELSE IF ~Valid(h, n) THEN Fault(h, "undefined")
    ELSE forwards_next(_add_to_rootschain([h EXCEPT !.fuel = @ - 1], h._min, n),
                       start, h.node[n].right)

(***************************************************************************)
(* _consolidate                                                            *)
(***************************************************************************)
\* The range-for over the registry that rebuilds the root list and _min.
RECURSIVE rebuild(_, _)

\* if(_compare(n->key, _min->key)) _min = n;  then the next slot.
rebuild_min(h, n, i) ==
    IF h.status # "ok" THEN h
    ELSE IF ~Valid(h, n) \/ ~Valid(h, h._min) THEN Fault(h, "undefined")
    ELSE IF _compare(h.node[n].key, h.node[h._min].key)
         THEN rebuild([h EXCEPT !._min = n], i + 1)
         ELSE rebuild(h, i + 1)

rebuild(h, i) ==
    IF h.status # "ok" \/ i > Len(h.a) THEN h
    ELSE IF h.a[i] = nil THEN rebuild(h, i + 1)
    ELSE IF h._min = nil THEN rebuild([h EXCEPT !._min = h.a[i]], i + 1)
    ELSE rebuild_min(_add_to_rootschain(h, h._min, h.a[i]), h.a[i], i)

\* _min = nullptr; and the rebuild loop.
reset_min(h) ==
    IF h.status # "ok" THEN h
    ELSE rebuild([h EXCEPT !._min = nil], 1)

_consolidate(h) ==
    IF h.status # "ok" THEN h
    ELSE IF h._size = 0 THEN Fault(h, "undefined")   \* (std::size_t) of -infinity
    ELSE note(reset_min(do_foreach(note([h EXCEPT !.a = Nulls(RegistryInitialSize(h._size))],
                                        "_consolidate", h._min, nil),
                                   "consolidate", h._min)),
              "_consolidate done", nil, nil)

(***************************************************************************)
(* _set_min, _insert, _extract_min                                         *)
(***************************************************************************)
\* _min = min;
assign_min(h, m) ==
    IF h.status # "ok" THEN h ELSE [h EXCEPT !._min = m]

_set_min(h, m) ==
    IF h.status # "ok" THEN h
    ELSE assign_min(destroy(h, h._min), m)

\* _size++;
inc_size(h) ==
    IF h.status # "ok" THEN h ELSE [h EXCEPT !._size = @ + 1]

\* update_min with the comparison's operands the wrong way round and negated:
\* the new node also becomes min when its key ties with min's.
update_min_on_ties(h, n) ==
    IF h.status # "ok" THEN h
    ELSE IF ~_compare(h.node[h._min].key, h.node[n].key) THEN [h EXCEPT !._min = n]
    ELSE h

\* if (_compare(node->key, _min->key)) _min = node;
update_min(h, n) ==
    IF h.status # "ok" THEN h
    ELSE IF _compare(h.node[n].key, h.node[h._min].key) THEN [h EXCEPT !._min = n]
    ELSE h

\* The node's fields are reset, then the node joins the root list.
add_root(h, n) ==
    IF h._min = nil
    THEN [h EXCEPT !._min = n, !.node[n].right = n, !.node[n].left = n]
    ELSE update_min(_add_to_rootschain(h, h._min, n), n)

_insert(h, n) ==
    IF n = nil /\ ~NDEBUG THEN AssertFailed(h)
    ELSE inc_size(add_root(
            [h EXCEPT !.node[n].degree = 0, !.node[n].parent = nil,
                      !.node[n].child = nil, !.node[n].left = nil,
                      !.node[n].right = nil, !.node[n].modified = FALSE], n))

\* _size--;
dec_size(h) ==
    IF h.status # "ok" THEN h ELSE [h EXCEPT !._size = @ - 1]

\* new_min that destroys the last node but leaves _min pointing at it.
new_min_keeps_last(h, z, right) ==
    IF h.status # "ok" THEN h
    ELSE IF z = right THEN destroy(h, h._min)
    ELSE _consolidate(_set_min(h, right))

\* if(z == right) _set_min(nullptr); else { _set_min(right); _consolidate(); }
new_min(h, z, right) ==
    IF h.status # "ok" THEN h
    ELSE IF z = right THEN _set_min(h, nil)
    ELSE _consolidate(_set_min(h, right))

\* node* right = z->right; _remove_from_rootschain(z);
remove_min(h, z) ==
    IF h.status # "ok" THEN h
    ELSE new_min(note(_remove_from_rootschain(h, z), "z unlinked", z, h.node[z].right),
                 z, h.node[z].right)

\* if(child != nullptr) do_forwards(child, ...): z's children join the roots.
children_to_roots(h, child) ==
    IF child = nil THEN h
    ELSE do_forwards([h EXCEPT !.fuel = MaxVisits], child, child)

_extract_min(h) ==
    IF h._min = nil /\ ~NDEBUG THEN AssertFailed(h)
    ELSE IF ~Valid(h, h._min) THEN Fault(h, "undefined")
    ELSE dec_size(remove_min(children_to_roots(h, h.node[h._min].child), h._min))

(***************************************************************************)
(* Public member functions                                                 *)
(***************************************************************************)
\* _insert(node) once create has returned node; an exception out of create
\* leaves insert before _insert is called.
insert_created(h, n) == IF h.status # "ok" THEN h ELSE _insert(h, n)

\* insert(args...): _insert(_factory.create(args...))
insert(h, v, storage) == insert_created(create(h, v, storage), h._allocations + 1)

\* return min;
return(h, key) ==
    IF h.status # "ok" THEN h ELSE [h EXCEPT !.ret = key]

\* return exists;
contains_return(h) == return(h, h.exists)

\* extract_min(): assert(_min != nullptr); T min = _min->key; _extract_min();
\* return min;
extract_min(h) ==
    IF h._min = nil /\ ~NDEBUG THEN AssertFailed(h)
    ELSE IF ~Valid(h, h._min) THEN Fault(h, "undefined")
    ELSE return(_extract_min(h), h.node[h._min].key)

\* min(): return _min->key;
min(h) ==
    IF ~Valid(h, h._min) THEN Fault(h, "undefined")
    ELSE return(h, h.node[h._min].key)

\* foreach(f): do_foreach(_min, [f](node* node){ f(node->key); })
foreach(h) == do_foreach(h, "collect", h._min)

\* contains(args...): T e{args...}; bool exists = false;
\* do_foreach_while(_min, ...); return exists;
contains(h, v) ==
    IF h._min = nil THEN return([h EXCEPT !.e = v, !.exists = FALSE], FALSE)
    ELSE contains_return(do_foreach_while([h EXCEPT !.e = v, !.exists = FALSE,
                                                    !.fuel = MaxVisits,
                                                    !.stack = << << h._min, h._min >> >>],
                                          "contains"))

\* _min = nullptr; _size = 0;
clear(h) ==
    IF h.status # "ok" THEN h ELSE [h EXCEPT !._min = nil, !._size = 0]

\* ~FibHeap(): do_foreach(_min, [this](node* node){ _factory.destroy(node); })
FibHeap_dtor(h) == clear(do_foreach(h, "destroy", h._min))

empty(h) == h._min = nil

size(h) == h._size

(***************************************************************************)
(* The reference priority queue of test.cpp (std::vector with              *)
(* std::push_heap / std::pop_heap under std::greater): front() is the      *)
(* least element.  It is kept as a sorted sequence.                        *)
(***************************************************************************)
push_heap(q, v) ==
    LET k == Cardinality({i \in 1..Len(q) : q[i] <= v})
    IN  SubSeq(q, 1, k) \o << v >> \o SubSeq(q, k + 1, Len(q))

pop_heap(q) == Tail(q)

(***************************************************************************)
(* State machine                                                           *)
(***************************************************************************)
\* The heap object as the member functions see it.  a is _consolidate's
\* registry, out what a collecting traversal has visited, fuel the visits
\* a traversal has left, stack the call stack of do_foreach_while, log what
\* the call recorded so far (when recording), e and exists the locals of
\* contains.
Heap ==
    [node |-> node, destroyed |-> destroyed, _min |-> _min, _size |-> _size,
     _allocations |-> _allocations, _deallocations |-> _deallocations,
     status |-> "ok", ret |-> none, a |-> << >>, out |-> << >>, fuel |-> 0,
     stack |-> << >>, recording |-> FALSE, log |-> << >>,
     e |-> none, exists |-> FALSE]

Store(h) ==
    /\ node' = h.node
    /\ destroyed' = h.destroyed
    /\ _min' = h._min
    /\ _size' = h._size
    /\ _allocations' = h._allocations
    /\ _deallocations' = h._deallocations
    /\ status' = h.status
    /\ ret' = h.ret

\* A returned extract_min adds its value to the values extracted.
StoreExtracted(h) ==
    /\ Store(h)
    /\ extracted' = (IF h.status = "ok" THEN Append(extracted, h.ret) ELSE extracted)

\* foreach hands the key of each node visited to its function.
StoreVisited(h) ==
    /\ Store(h)
    /\ visited' = [i \in 1..Len(h.out) |-> h.node[h.out[i]].key]

\* FibHeap(): a newly constructed heap.
Fresh ==
    [node |-> << >>, destroyed |-> {}, _min |-> nil, _size |-> 0,
     _allocations |-> 0, _deallocations |-> 0,
     status |-> "ok", ret |-> none, a |-> << >>, out |-> << >>, fuel |-> 0,
     stack |-> << >>, recording |-> FALSE, log |-> << >>,
     e |-> none, exists |-> FALSE]

\* No second heap is run.
NoShadow == [status |-> "off"]

\* FibHeap(): _min{nullptr}, _size{0}, the factory's counters at 0.
Init ==
    /\ node = << >>
    /\ destroyed = {}
    /\ _min = nil
    /\ _size = 0
    /\ _allocations = 0
    /\ _deallocations = 0
    /\ NDEBUG \in BOOLEAN
    /\ status = "ok"
    /\ lastOp = "FibHeap"
    /\ ret = none
    /\ visited = << >>
    /\ queue = << >>
    /\ expect = none
    /\ extracted = << >>
    /\ phase = "fill"
    /\ shadow = NoShadow
    /\ trace = << >>
    /\ C = ""
    /\ CA = ""
    /\ mem = << >>
    /\ s = nil
    /\ t = nil
    /\ pushes = 0
    /\ reference = << >>
    /\ base = none
    /\ _m = nil
    /\ TimingIdle

\* The heap object can be called: the last call returned and the object has
\* not been destroyed.
Live == status = "ok" /\ lastOp # "~FibHeap"

\* heap.insert(v), and the reference queue's push.
DoInsert(v) ==
    /\ Live
    /\ Store(insert(Heap, v, TRUE))
    /\ lastOp' = "insert"
    /\ visited' = << >>
    /\ queue' = push_heap(queue, v)
    /\ expect' = none
    /\ phase' = (IF phase = "fill" THEN "fill" ELSE "mixed")
    /\ UNCHANGED << NDEBUG, extracted >>
    /\ UNCHANGED << containers, trace >>

Insert(v) ==
    /\ _allocations < MaxInserts
    /\ DoInsert(v)
    /\ UNCHANGED shadow

\* heap.insert(v) when the allocator cannot provide storage for the node.
InsertBadAlloc(v) ==
    /\ Live
    /\ Store(insert(Heap, v, FALSE))
    /\ lastOp' = "insert: bad_alloc"
    /\ visited' = << >>
    /\ expect' = none
    /\ UNCHANGED << NDEBUG, queue, extracted, phase, shadow >>
    /\ UNCHANGED << containers, trace >>

\* heap.extract_min(), and the reference queue's pop.
DoExtractMin ==
    /\ Live
    /\ StoreExtracted(extract_min(Heap))
    /\ lastOp' = "extract_min"
    /\ visited' = << >>
    /\ expect' = (IF queue = << >> THEN none ELSE Head(queue))
    /\ queue' = (IF queue = << >> THEN queue ELSE pop_heap(queue))
    /\ phase' = (IF phase = "fill" THEN "drain" ELSE phase)
    /\ UNCHANGED << NDEBUG >>
    /\ UNCHANGED << containers, trace >>

ExtractMin ==
    /\ DoExtractMin
    /\ UNCHANGED shadow

Min ==
    /\ Live
    /\ Store(min(Heap))
    /\ lastOp' = "min"
    /\ visited' = << >>
    /\ expect' = (IF queue = << >> THEN none ELSE Head(queue))
    /\ UNCHANGED << NDEBUG, queue, extracted, phase, shadow >>
    /\ UNCHANGED << containers, trace >>

Foreach ==
    /\ Live
    /\ StoreVisited(foreach(Heap))
    /\ lastOp' = "foreach"
    /\ expect' = none
    /\ UNCHANGED << NDEBUG, queue, extracted, phase, shadow >>
    /\ UNCHANGED << containers, trace >>

\* The heap object goes out of scope.
Destructor ==
    /\ Live
    /\ Store(FibHeap_dtor(Heap))
    /\ lastOp' = "~FibHeap"
    /\ visited' = << >>
    /\ expect' = none
    /\ UNCHANGED << NDEBUG, queue, extracted, phase, shadow >>
    /\ UNCHANGED << containers, trace >>

Next ==
    \/ \E v \in Keys : Insert(v)
    \/ \E v \in Keys : InsertBadAlloc(v)
    \/ ExtractMin
    \/ Min
    \/ Foreach
    \/ Destructor

Spec == Init /\ [][Next]_vars

(***************************************************************************)
(* The example run: the values 5, 3, 8, 1, 9, 2 are inserted into an empty *)
(* heap, each once and in any order, with min() read at any point; once    *)
(* all are in, extract_min is called until the heap is empty.              *)
(***************************************************************************)
Example == << 5, 3, 8, 1, 9, 2 >>

ExampleKeys == {Example[i] : i \in 1..Len(Example)}

ExampleInsert(v) ==
    /\ phase = "fill"
    /\ \A i \in 1..Len(node) : node[i].key # v
    /\ DoInsert(v)
    /\ UNCHANGED shadow

ExampleExtractMin ==
    /\ Len(node) = Len(Example)
    /\ queue # << >>
    /\ ExtractMin

ExampleNext ==
    \/ \E v \in ExampleKeys : ExampleInsert(v)
    \/ ExampleExtractMin
    \/ Min

SpecExample == Init /\ [][ExampleNext]_vars

(***************************************************************************)
(* Reuse: once the heap has been emptied by extract_min, a newly           *)
(* constructed second heap is given every call the first heap is given.    *)
(***************************************************************************)
\* The call on the second heap: insert(v) for a key v, extract_min for none.
Apply(h, v) ==
    IF h.status # "ok" THEN h
    ELSE IF v = none THEN extract_min([h EXCEPT !.ret = none])
    ELSE insert([h EXCEPT !.ret = none], v, TRUE)

ReuseInsert(v) ==
    /\ _allocations < MaxInserts
    /\ DoInsert(v)
    /\ shadow' = (IF shadow.status = "off" THEN shadow ELSE Apply(shadow, v))

ReuseExtractMin ==
    /\ DoExtractMin
    /\ shadow' = (IF shadow.status # "off" THEN Apply(shadow, none)
                  ELSE IF status' = "ok" /\ queue' = << >> THEN Fresh
                  ELSE shadow)

ReuseNext ==
    \/ \E v \in Keys : ReuseInsert(v)
    \/ ReuseExtractMin

SpecReuse == Init /\ [][ReuseNext]_vars

(***************************************************************************)
(* Recorded: insert and extract_min with the inside of the call recorded   *)
(* in trace.                                                               *)
(***************************************************************************)
\* The heap object, recording.
Recording == [Heap EXCEPT !.recording = TRUE]

RecordedInsert(v) ==
    /\ Live
    /\ _allocations < MaxInserts
    /\ Store(insert(Recording, v, TRUE))
    /\ trace' = << >>
    /\ lastOp' = "insert"
    /\ visited' = << >>
    /\ queue' = push_heap(queue, v)
    /\ expect' = none
    /\ phase' = (IF phase = "fill" THEN "fill" ELSE "mixed")
    /\ UNCHANGED << NDEBUG, extracted, shadow, containers >>

\* what the call the heap h is left by recorded
StoreRecorded(h) ==
    /\ StoreExtracted(h)
    /\ trace' = h.log

RecordedExtractMin ==
    /\ Live
    /\ StoreRecorded(extract_min(Recording))
    /\ lastOp' = "extract_min"
    /\ visited' = << >>
    /\ expect' = (IF queue = << >> THEN none ELSE Head(queue))
    /\ queue' = (IF queue = << >> THEN queue ELSE pop_heap(queue))
    /\ phase' = (IF phase = "fill" THEN "drain" ELSE phase)
    /\ UNCHANGED << NDEBUG, shadow, containers >>

RecordedNext ==
    \/ \E v \in Keys : RecordedInsert(v)
    \/ RecordedExtractMin

SpecRecorded == Init /\ [][RecordedNext]_vars

(***************************************************************************)
(* The heap asked for values: insert, extract_min and contains.            *)
(***************************************************************************)
\* heap.contains(v)
HeapContains(v) ==
    /\ Live
    /\ Store(contains(Heap, v))
    /\ lastOp' = "contains"
    /\ visited' = << >>
    /\ expect' = none
    /\ UNCHANGED << NDEBUG, queue, extracted, phase, shadow >>
    /\ UNCHANGED << containers, trace >>

ContainsNext ==
    \/ \E v \in Keys : Insert(v)
    \/ ExtractMin
    \/ \E v \in Keys : HeapContains(v)

SpecContains == Init /\ [][ContainsNext]_vars


(***************************************************************************)
(* The linear containers and their adapters, instantiated as in test.cpp   *)
(* with Type = int.  A world w holds the free store mem and the two        *)
(* container objects s and t of testContainerAdapter; a member function    *)
(* takes the world and the name x of the object it is called on.  An       *)
(* address is a positive number and operator new hands out the lowest free *)
(* one.  Arrays are indexed from 0 as in the code.                         *)
(***************************************************************************)
MaxPushes == 17     \* at most this many push calls on s in a behaviour
MaxCopied == 4      \* at most this many push calls on s where s is also copied

\* static const std::size_t INITIAL_SIZE = 16 (Vector and CVector alike)
INITIAL_SIZE == 16

\* What a slot of new Type[n] holds for Type = int: no value was stored.
\* Every pushed element is greater.
indeterminate == 0

\* Where the code's behaviour is undefined, what the build makes of it:
\*   "benign"  the call goes on as its author meant it to
\*   "fault"   anything else
Builds == {"benign", "fault"}

Array(n) == [i \in 0..(n - 1) |-> indeterminate]

\* The address operator new returns.
fresh(m) ==
    CHOOSE a \in 1..(Cardinality(DOMAIN m) + 1) :
        a \notin DOMAIN m /\ \A b \in 1..(a - 1) : b \in DOMAIN m

\* new: the block is stored at address a.
new(w, a, block) == [w EXCEPT !.mem = (a :> block) @@ @]

\* delete, delete[]: the block at address a is given back.
delete(w, a) == [w EXCEPT !.mem = [b \in DOMAIN @ \ {a} |-> @[b]]]

\* A size_t comparison pos >= n, for n a container size (a negative
\* representative is above every size).
AtLeast(pos, n) == pos < 0 \/ pos >= n

(***************************************************************************)
(* Vector                                                                  *)
(***************************************************************************)
\* Vector(): _used(0), _max(INITIAL_SIZE), _v = new Type[_max]
Vector_ctor(w, x) ==
    new([w EXCEPT ![x] = [_v |-> fresh(w.mem), _used |-> 0, _max |-> INITIAL_SIZE]],
        fresh(w.mem), Array(INITIAL_SIZE))

Vector_size(w, x) == [w EXCEPT !.ret = w[x]._used]

\* at(pos): throws when pos >= _used, returns _v[pos] otherwise.
Vector_at(w, x, pos) ==
    IF AtLeast(pos, w[x]._used) THEN Fault(w, "exception")
    ELSE [w EXCEPT !.ret = w.mem[w[x]._v][pos]]

\* _grow(): twice the slots, the used ones copied, the old array deleted.
Vector_grow(w, x) ==
    delete(new([w EXCEPT ![x]._max = 2 * @, ![x]._v = fresh(w.mem)],
               fresh(w.mem),
               [i \in 0..(2 * w[x]._max - 1) |->
                   IF i < w[x]._used THEN w.mem[w[x]._v][i] ELSE indeterminate]),
           w[x]._v)

\* _v[_used++] = e
Vector_store(w, x, e) ==
    [w EXCEPT !.mem[w[x]._v][w[x]._used] = e, ![x]._used = @ + 1]

Vector_push_back(w, x, e) ==
    Vector_store(IF w[x]._used = w[x]._max THEN Vector_grow(w, x) ELSE w, x, e)

Vector_back(w, x) == Vector_at(w, x, w[x]._used - 1)

Vector_pop_back(w, x) ==
    IF w[x]._used = 0 THEN Fault(w, "exception")
    ELSE [w EXCEPT ![x]._used = @ - 1]

\* A function returning a value is left without a return statement: the
\* behaviour is undefined.  The benign build leaves the value of the last
\* call (here at(0)) where the caller looks for the result.
no_return(w, build) ==
    IF w.status # "ok" \/ build = "benign" THEN w ELSE Fault(w, "undefined")

\* front() const { (const Type &)at(0); }
Vector_front(w, x, build) == no_return(Vector_at(w, x, 0), build)

\* The loop of pop_front: for (i = 0; i <= _used; i++) _v[i] = _v[i+1].
\* It reads the slots 1.._used+1 and writes the slots 0.._used of an array
\* of _max slots.  Slots that were never written are read as they are; a
\* slot beyond the array is undefined behaviour, which the benign build
\* turns into a read of some value and a write that nobody sees.
shifted(v, _used, _max) ==
    [i \in 0..(_max - 1) |->
        IF i > _used THEN v[i]
        ELSE IF i + 1 < _max THEN v[i + 1]
        ELSE indeterminate]

Vector_pop_front(w, x, build) ==
    IF w[x]._used = 0 THEN Fault(w, "exception")
    ELSE IF w[x]._used + 1 >= w[x]._max /\ build = "fault" THEN Fault(w, "undefined")
    ELSE [w EXCEPT !.mem[w[x]._v] = shifted(@, w[x]._used, w[x]._max),
                   ![x]._used = @ - 1]

\* The rest of operator= once the old array is gone: _max = other._max,
\* _v = new Type[_max], _used = other.size(), the used slots copied.
Vector_copy(w, x, other) ==
    new([w EXCEPT ![x] = [_v |-> fresh(w.mem), _used |-> w[other]._used,
                          _max |-> w[other]._max]],
        fresh(w.mem),
        [i \in 0..(w[other]._max - 1) |->
            IF i < w[other]._used THEN w.mem[w[other]._v][i] ELSE indeterminate])

\* operator=(other): the array obtained by new[] is released by delete, not
\* delete[]: undefined behaviour, which the benign build treats as delete[].
Vector_assign(w, x, other, build) ==
    IF build = "fault" THEN Fault(w, "undefined")
    ELSE Vector_copy(delete(w, w[x]._v), x, other)

\* push_front's loop and stores: for (i = _used; i > 0; i--) _v[i] = _v[i-1];
\* _v[0] = e; _used++
Vector_store_front(w, x, e) ==
    [w EXCEPT !.mem[w[x]._v] = [i \in DOMAIN @ |->
                                   IF i = 0 THEN e
                                   ELSE IF i <= w[x]._used THEN @[i - 1]
                                   ELSE @[i]],
              ![x]._used = @ + 1]

Vector_push_front(w, x, e) ==
    Vector_store_front(IF w[x]._used = w[x]._max THEN Vector_grow(w, x) ELSE w, x, e)

\* The array slots a call on the Vector o reads or writes, each with the
\* number of slots of the array it is a slot of.
Slots(indices, n) == {<< i, n >> : i \in indices}

\* _grow: _v[i] = old[i] for i < _used, old of _max and _v of 2 * _max slots
Vector_grow_slots(o) ==
    Slots(0..(o._used - 1), o._max) \cup Slots(0..(o._used - 1), 2 * o._max)

\* if (_used == _max) _grow(): the slots of _grow, and _max afterwards
Vector_room_slots(o) == IF o._used = o._max THEN Vector_grow_slots(o) ELSE {}
Vector_room_max(o) == IF o._used = o._max THEN 2 * o._max ELSE o._max

\* _v[_used++] = e
Vector_push_back_slots(o) ==
    Vector_room_slots(o) \cup Slots({o._used}, Vector_room_max(o))

\* _v[i] = _v[i-1] for i = _used down to 1, then _v[0] = e
Vector_push_front_slots(o) ==
    Vector_room_slots(o) \cup Slots((1..o._used) \cup (0..(o._used - 1)) \cup {0},
                                    Vector_room_max(o))

\* _used--: no slot
Vector_pop_back_slots(o) == {}

\* _v[i] = _v[i+1] for i = 0 up to _used, unless the Vector is empty
Vector_pop_front_slots(o) ==
    IF o._used = 0 THEN {}
    ELSE Slots((0..o._used) \cup (1..(o._used + 1)), o._max)

\* return _v[pos], unless pos >= _used
Vector_at_slots(o, pos) == IF AtLeast(pos, o._used) THEN {} ELSE Slots({pos}, o._max)

(***************************************************************************)
(* CVector: a circular buffer; o is the object                             *)
(***************************************************************************)
_dec(o, i) == IF i = 0 THEN o._max - 1 ELSE i - 1

_inc(o, i) == IF i = o._max - 1 THEN 0 ELSE i + 1

_adjust(o, external) ==
    IF external + o._start >= o._max THEN external + o._start - o._max
    ELSE external + o._start

\* The slots a loop for (i = first; i != _end; i = _inc(i)) goes through.
RECURSIVE slots(_, _)
slots(o, i) == IF i = o._end THEN << >> ELSE << i >> \o slots(o, _inc(o, i))

\* The new array of n slots with the elements of the old one from _start
\* to _end copied to its beginning: _v[j++] = old[i].
copied_as_it_lies(v, from, n) ==
    [j \in 0..(n - 1) |-> IF j < Len(from) THEN v[j] ELSE indeterminate]

unrolled(v, from, n) ==
    [j \in 0..(n - 1) |-> IF j < Len(from) THEN v[from[j + 1]] ELSE indeterminate]

\* CVector(): _start(0), _end(0), _used(0), _max(INITIAL_SIZE), _v = new Type[_max]
CVector_ctor(w, x) ==
    new([w EXCEPT ![x] = [_v |-> fresh(w.mem), _start |-> 0, _end |-> 0,
                          _used |-> 0, _max |-> INITIAL_SIZE]],
        fresh(w.mem), Array(INITIAL_SIZE))

CVector_size(w, x) == [w EXCEPT !.ret = w[x]._used]

\* _grow(): the elements are unrolled into a new array of twice the slots.
CVector_grow(w, x) ==
    delete(new([w EXCEPT ![x] = [_v |-> fresh(w.mem), _start |-> 0, _end |-> @._used,
                                 _used |-> @._used, _max |-> 2 * @._max]],
               fresh(w.mem),
               unrolled(w.mem[w[x]._v], slots(w[x], w[x]._start), 2 * w[x]._max)),
           w[x]._v)

\* _v[_end] = e; _end = _inc(_end); _used++
CVector_store_back(w, x, e) ==
    [w EXCEPT !.mem[w[x]._v][w[x]._end] = e,
              ![x]._end = _inc(w[x], @), ![x]._used = @ + 1]

CVector_push_back(w, x, e) ==
    CVector_store_back(IF _inc(w[x], w[x]._end) = w[x]._start THEN CVector_grow(w, x)
                       ELSE w, x, e)

\* _start = _dec(_start); _v[_start] = e; _used++
CVector_store_front(w, x, e) ==
    [w EXCEPT !.mem[w[x]._v][_dec(w[x], w[x]._start)] = e,
              ![x]._start = _dec(w[x], @), ![x]._used = @ + 1]

CVector_push_front(w, x, e) ==
    CVector_store_front(IF _dec(w[x], w[x]._start) = w[x]._end THEN CVector_grow(w, x)
                        ELSE w, x, e)

CVector_at(w, x, pos) ==
    IF AtLeast(pos, w[x]._used) THEN Fault(w, "exception")
    ELSE [w EXCEPT !.ret = w.mem[w[x]._v][_adjust(w[x], pos)]]

CVector_back(w, x) ==
    IF w[x]._used = 0 THEN Fault(w, "exception")
    ELSE [w EXCEPT !.ret = w.mem[w[x]._v][_dec(w[x], w[x]._end)]]

CVector_front(w, x) ==
    IF w[x]._used = 0 THEN Fault(w, "exception")
    ELSE [w EXCEPT !.ret = w.mem[w[x]._v][w[x]._start]]

CVector_pop_back(w, x) ==
    IF w[x]._used = 0 THEN Fault(w, "exception")
    ELSE [w EXCEPT ![x]._end = _dec(w[x], @), ![x]._used = @ - 1]

CVector_pop_front(w, x) ==
    IF w[x]._used = 0 THEN Fault(w, "exception")
    ELSE [w EXCEPT ![x]._start = _inc(w[x], @), ![x]._used = @ - 1]

\* for (it = begin(); it != end(); ++it) with *it handed out: begin() is at
\* _start, end() at _end, ++ is _inc and * reads _v[_pos].
CVector_iterate(w, x) ==
    [w EXCEPT !.out = [k \in 1..Len(slots(w[x], w[x]._start)) |->
                          w.mem[w[x]._v][slots(w[x], w[x]._start)[k]]]]

\* The rest of operator= once the old array is gone.
CVector_copy(w, x, other) ==
    new([w EXCEPT ![x] = [_v |-> fresh(w.mem), _start |-> 0, _end |-> w[other]._used,
                          _used |-> w[other]._used, _max |-> w[other]._max]],
        fresh(w.mem),
        unrolled(w.mem[w[other]._v], slots(w[other], w[other]._start), w[other]._max))

\* operator=(other): delete on an array obtained by new[], as in Vector.
CVector_assign(w, x, other, build) ==
    IF build = "fault" THEN Fault(w, "undefined")
    ELSE CVector_copy(delete(w, w[x]._v), x, other)

(***************************************************************************)
(* SingleList: nodes [_elem, _next] on the free store                      *)
(***************************************************************************)
\* SingleList(): _first(0), _last(0), _size(0)
SingleList_ctor(w, x) == [w EXCEPT ![x] = [_first |-> nil, _last |-> nil, _size |-> 0]]

SingleList_size(w, x) == [w EXCEPT !.ret = w[x]._size]

\* push_back once the node n exists.
SingleList_append(w, x, n) ==
    IF w[x]._size = 0
    THEN [w EXCEPT ![x]._first = n, ![x]._last = n, ![x]._size = @ + 1]
    ELSE [w EXCEPT !.mem[w[x]._last]._next = n, ![x]._last = n, ![x]._size = @ + 1]

SingleList_push_back(w, x, e) ==
    SingleList_append(new(w, fresh(w.mem), [_elem |-> e, _next |-> nil]), x, fresh(w.mem))

SingleList_back(w, x) ==
    IF w[x]._size = 0 THEN Fault(w, "exception")
    ELSE [w EXCEPT !.ret = w.mem[w[x]._last]._elem]

SingleList_front(w, x) ==
    IF w[x]._size = 0 THEN Fault(w, "exception")
    ELSE [w EXCEPT !.ret = w.mem[w[x]._first]._elem]

SingleList_pop_front(w, x) ==
    IF w[x]._size = 0 THEN Fault(w, "exception")
    ELSE IF w[x]._size = 1
    THEN delete([w EXCEPT ![x]._first = nil, ![x]._last = nil, ![x]._size = @ - 1],
                w[x]._first)
    ELSE delete([w EXCEPT ![x]._first = w.mem[@]._next, ![x]._size = @ - 1],
                w[x]._first)

\* _clear(): every node from _first on is deleted.
RECURSIVE SingleList_clear(_, _)
SingleList_clear(w, x) ==
    IF w[x]._first = nil THEN [w EXCEPT ![x]._last = nil, ![x]._size = 0]
    ELSE SingleList_clear(delete([w EXCEPT ![x]._first = w.mem[@]._next], w[x]._first), x)

\* The loop of operator=: while (n) { push_back(n->_elem); n = n->_next; }
RECURSIVE SingleList_copy(_, _, _)
SingleList_step(w, x, n) == SingleList_copy(w, x, w.mem[n]._next)

SingleList_copy(w, x, n) ==
    IF n = nil THEN w
    ELSE SingleList_step(SingleList_push_back(w, x, w.mem[n]._elem), x, n)

SingleList_assign(w, x, other) ==
    SingleList_copy(SingleList_clear(w, x), x, w[other]._first)

(***************************************************************************)
(* Container<Type> _v: the member of an adapter, c the class template      *)
(***************************************************************************)
Container_ctor(c, w, x) ==
    CASE c = "Vector" -> Vector_ctor(w, x)
      [] c = "CVector" -> CVector_ctor(w, x)
      [] c = "SingleList" -> SingleList_ctor(w, x)

Container_size(c, w, x) ==
    CASE c = "Vector" -> Vector_size(w, x)
      [] c = "CVector" -> CVector_size(w, x)
      [] c = "SingleList" -> SingleList_size(w, x)

Container_push_back(c, w, x, e) ==
    CASE c = "Vector" -> Vector_push_back(w, x, e)
      [] c = "CVector" -> CVector_push_back(w, x, e)
      [] c = "SingleList" -> SingleList_push_back(w, x, e)

Container_pop_front(c, w, x, build) ==
    CASE c = "Vector" -> Vector_pop_front(w, x, build)
      [] c = "CVector" -> CVector_pop_front(w, x)
      [] c = "SingleList" -> SingleList_pop_front(w, x)

\* SingleList has no pop_back: Stack is not instantiated over it.
Container_pop_back(c, w, x) ==
    CASE c = "Vector" -> Vector_pop_back(w, x)
      [] c = "CVector" -> CVector_pop_back(w, x)

Container_front(c, w, x, build) ==
    CASE c = "Vector" -> Vector_front(w, x, build)
      [] c = "CVector" -> CVector_front(w, x)
      [] c = "SingleList" -> SingleList_front(w, x)

Container_back(c, w, x) ==
    CASE c = "Vector" -> Vector_back(w, x)
      [] c = "CVector" -> CVector_back(w, x)
      [] c = "SingleList" -> SingleList_back(w, x)

Container_assign(c, w, x, other, build) ==
    CASE c = "Vector" -> Vector_assign(w, x, other, build)
      [] c = "CVector" -> CVector_assign(w, x, other, build)
      [] c = "SingleList" -> SingleList_assign(w, x, other)

(***************************************************************************)
(* Queue and Stack                                                         *)
(***************************************************************************)
Queue_push(c, w, x, e) == Container_push_back(c, w, x, e)

Queue_pop(c, w, x, build) == Container_pop_front(c, w, x, build)

Queue_front(c, w, x, build) == Container_front(c, w, x, build)

Queue_top(c, w, x, build) == Queue_front(c, w, x, build)

Queue_back(c, w, x) == Container_back(c, w, x)

Queue_size(c, w, x) == Container_size(c, w, x)

Stack_push(c, w, x, e) == Container_push_back(c, w, x, e)

Stack_pop(c, w, x) == Container_pop_back(c, w, x)

Stack_top(c, w, x) == Container_back(c, w, x)

Stack_size(c, w, x) == Container_size(c, w, x)

\* test.cpp's push(container, e) and pop(container), top() and size() of
\* either adapter, and the adapters' implicit copy assignment, which
\* assigns the member _v.
push(ca, c, w, x, e) ==
    IF ca = "Queue" THEN Queue_push(c, w, x, e) ELSE Stack_push(c, w, x, e)

pop(ca, c, w, x, build) ==
    IF ca = "Queue" THEN Queue_pop(c, w, x, build) ELSE Stack_pop(c, w, x)

top(ca, c, w, x, build) ==
    IF ca = "Queue" THEN Queue_top(c, w, x, build) ELSE Stack_top(c, w, x)

adapter_size(ca, c, w, x) ==
    IF ca = "Queue" THEN Queue_size(c, w, x) ELSE Stack_size(c, w, x)

adapter_assign(c, w, x, other, build) == Container_assign(c, w, x, other, build)

\* CA<int,C> s, t;
NoObjects ==
    [mem |-> << >>, s |-> nil, t |-> nil, status |-> "ok", ret |-> none, out |-> << >>]

testContainerAdapter(c) == Container_ctor(c, Container_ctor(c, NoObjects, "s"), "t")

\* The instantiations of testContainerAdapter in test.cpp whose container
\* is in the repository.
Instantiations ==
    { << "Stack", "Vector" >>, << "Stack", "CVector" >>,
      << "Queue", "Vector" >>, << "Queue", "CVector" >>, << "Queue", "SingleList" >> }

(***************************************************************************)
(* State machine of the containers                                         *)
(***************************************************************************)
World == [mem |-> mem, s |-> s, t |-> t, status |-> "ok", ret |-> none, out |-> << >>]

StoreWorld(w) ==
    /\ mem' = w.mem
    /\ s' = w.s
    /\ t' = w.t
    /\ status' = w.status
    /\ ret' = w.ret
    /\ visited' = w.out

\* The heap is constructed and not called.
HeapIdle ==
    /\ node = << >>
    /\ destroyed = {}
    /\ _min = nil
    /\ _size = 0
    /\ _allocations = 0
    /\ _deallocations = 0
    /\ NDEBUG = FALSE
    /\ queue = << >>
    /\ extracted = << >>
    /\ phase = "fill"
    /\ shadow = NoShadow
    /\ trace = << >>

\* The places of the tape: the elements pushed.
Tape == 1..(MaxPushes + 1)

\* The objects of the world w exist and nothing has been pushed.
Constructed(w) ==
    /\ mem = w.mem
    /\ s = w.s
    /\ t = w.t
    /\ status = w.status
    /\ ret = w.ret
    /\ visited = w.out
    /\ pushes = 0
    /\ reference = << >>
    /\ _m = nil
    /\ TimingIdle

InitAdapters ==
    /\ HeapIdle
    /\ expect = none
    /\ \E i \in Instantiations : CA = i[1] /\ C = i[2]
    /\ Constructed(testContainerAdapter(C))
    /\ base = 1
    /\ lastOp = "testContainerAdapter"

\* The element the next push at the back (at the front) takes: one more
\* than the last element (one less than the first).  The elements held are
\* then consecutive numbers, each the number of its place on a tape along
\* which the container moves.
next_back == base

next_front == base - Len(reference) - 1

\* What the reference sequence is after a pop of the adapter.
popped(ca, r) ==
    IF r = << >> THEN r
    ELSE IF ca = "Queue" THEN Tail(r)
    ELSE SubSeq(r, 1, Len(r) - 1)

\* The call returned w: the reference sequence follows only a call that
\* returned.
Pushed(w, e) ==
    /\ StoreWorld(w)
    /\ reference' = (IF w.status = "ok" THEN Append(reference, e) ELSE reference)
    /\ base' = (IF w.status = "ok" THEN e + 1 ELSE base)

\* r is the reference sequence without the element popped, b the element
\* the next push at the back takes then.
Popped(w, r, b) ==
    /\ StoreWorld(w)
    /\ reference' = (IF w.status = "ok" THEN r ELSE reference)
    /\ base' = (IF w.status = "ok" THEN b ELSE base)
    /\ UNCHANGED pushes

Observed(w) ==
    /\ StoreWorld(w)
    /\ UNCHANGED << pushes, reference, base >>

\* push(s, e)
Push ==
    /\ Live
    /\ pushes < MaxPushes
    /\ Pushed(push(CA, C, World, "s", next_back), next_back)
    /\ pushes' = pushes + 1
    /\ lastOp' = "push"
    /\ UNCHANGED << others, expect, C, CA >>

\* pop(s)
Pop(build) ==
    /\ Live
    /\ Popped(pop(CA, C, World, "s", build), popped(CA, reference),
              IF CA = "Queue" THEN base ELSE base - 1)
    /\ lastOp' = "pop"
    /\ UNCHANGED << others, expect, C, CA >>

\* s.top()
Top(build) ==
    /\ Live
    /\ Observed(top(CA, C, World, "s", build))
    /\ lastOp' = "top"
    /\ UNCHANGED << others, expect, C, CA >>

\* s.front(), of a Queue
Front(build) ==
    /\ Live
    /\ CA = "Queue"
    /\ Observed(Queue_front(C, World, "s", build))
    /\ lastOp' = "front"
    /\ UNCHANGED << others, expect, C, CA >>

\* s.back(), of a Queue
Back ==
    /\ Live
    /\ CA = "Queue"
    /\ Observed(Queue_back(C, World, "s"))
    /\ lastOp' = "back"
    /\ UNCHANGED << others, expect, C, CA >>

\* s.size(), t.size()
Size(x) ==
    /\ Live
    /\ Observed(adapter_size(CA, C, World, x))
    /\ lastOp' = "size " \o x
    /\ UNCHANGED << others, expect, C, CA >>

\* t = s
Assign(build) ==
    /\ Live
    /\ Observed(adapter_assign(C, World, "t", "s", build))
    /\ lastOp' = "operator="
    /\ UNCHANGED << others, expect, C, CA >>

\* Queue<int,C> alone: pushes, pops and every reading member function.
InitQueue ==
    /\ InitAdapters
    /\ CA = "Queue"

NextQueue ==
    \/ Push
    \/ \E build \in Builds : Pop(build)
    \/ \E build \in Builds : Top(build)
    \/ \E build \in Builds : Front(build)
    \/ Back
    \/ \E x \in {"s", "t"} : Size(x)

SpecQueue == InitQueue /\ [][NextQueue]_vars

\* testContainerAdapter and what may follow it: a few pushes and pops on s
\* with t = s and size() at any point.
PushFew ==
    /\ pushes < MaxCopied
    /\ Push

NextAdapters ==
    \/ PushFew
    \/ \E build \in Builds : Pop(build)
    \/ \E build \in Builds : Top(build)
    \/ \E x \in {"s", "t"} : Size(x)
    \/ \E build \in Builds : Assign(build)

SpecAdapters == InitAdapters /\ [][NextAdapters]_vars

(***************************************************************************)
(* CVector on its own, used as a double-ended sequence                     *)
(***************************************************************************)
InitCVector ==
    /\ HeapIdle
    /\ CA = ""
    /\ C = "CVector"
    /\ Constructed(CVector_ctor(NoObjects, "s"))
    /\ base = (MaxPushes + 1) \div 2 + 1
    /\ expect = none
    /\ lastOp = "CVector"

PushedFront(w, e) ==
    /\ StoreWorld(w)
    /\ reference' = (IF w.status = "ok" THEN << e >> \o reference ELSE reference)
    /\ UNCHANGED base

\* What the reference sequence answers to at(i), to front() and to back().
reference_at(i) == IF 0 <= i /\ i < Len(reference) THEN reference[i + 1] ELSE none

\* s.push_back(e)
PushBack ==
    /\ Live
    /\ next_back \in Tape
    /\ Pushed(CVector_push_back(World, "s", next_back), next_back)
    /\ lastOp' = "push_back"
    /\ expect' = none
    /\ UNCHANGED << others, C, CA, pushes >>

\* s.push_front(e)
PushFront ==
    /\ Live
    /\ next_front \in Tape
    /\ PushedFront(CVector_push_front(World, "s", next_front), next_front)
    /\ lastOp' = "push_front"
    /\ expect' = none
    /\ UNCHANGED << others, C, CA, pushes >>

\* s.pop_back()
PopBack ==
    /\ Live
    /\ Popped(CVector_pop_back(World, "s"), popped("Stack", reference), base - 1)
    /\ lastOp' = "pop_back"
    /\ expect' = none
    /\ UNCHANGED << others, C, CA >>

\* s.pop_front()
PopFront ==
    /\ Live
    /\ Popped(CVector_pop_front(World, "s"), popped("Queue", reference), base)
    /\ lastOp' = "pop_front"
    /\ expect' = none
    /\ UNCHANGED << others, C, CA >>

\* s.size()
CVectorSize ==
    /\ Live
    /\ Observed(CVector_size(World, "s"))
    /\ lastOp' = "size"
    /\ expect' = Len(reference)
    /\ UNCHANGED << others, C, CA >>

\* s.front()
CVectorFront ==
    /\ Live
    /\ Observed(CVector_front(World, "s"))
    /\ lastOp' = "front"
    /\ expect' = reference_at(0)
    /\ UNCHANGED << others, C, CA >>

\* s.back()
CVectorBack ==
    /\ Live
    /\ Observed(CVector_back(World, "s"))
    /\ lastOp' = "back"
    /\ expect' = reference_at(Len(reference) - 1)
    /\ UNCHANGED << others, C, CA >>

\* s.at(i)
CVectorAt(i) ==
    /\ Live
    /\ Observed(CVector_at(World, "s", i))
    /\ lastOp' = "at"
    /\ expect' = reference_at(i)
    /\ UNCHANGED << others, C, CA >>

\* for (it = s.begin(); it != s.end(); ++it) *it
CVectorIterate ==
    /\ Live
    /\ Observed(CVector_iterate(World, "s"))
    /\ lastOp' = "begin..end"
    /\ expect' = none
    /\ UNCHANGED << others, C, CA >>

NextCVector ==
    \/ PushBack
    \/ PushFront
    \/ PopBack
    \/ PopFront
    \/ CVectorSize
    \/ CVectorFront
    \/ CVectorBack
    \/ \E i \in 0..MaxPushes : CVectorAt(i)
    \/ CVectorIterate

SpecCVector == InitCVector /\ [][NextCVector]_vars

(***************************************************************************)
(* Vector on its own, watched for the slots of its array it touches: every *)
(* element pushed is the same, and visited holds the array slots the last  *)
(* call read or wrote.                                                     *)
(***************************************************************************)
InitVector ==
    /\ HeapIdle
    /\ CA = ""
    /\ C = "Vector"
    /\ Constructed(Vector_ctor(NoObjects, "s"))
    /\ base = 1
    /\ expect = none
    /\ lastOp = "Vector"

\* the call left the world w and touched the slots
Touched(w, touched) == [w EXCEPT !.out = touched]

\* The call returned w and r is the reference sequence after it.
VectorCalled(w, r) ==
    /\ StoreWorld(w)
    /\ reference' = (IF w.status = "ok" THEN r ELSE reference)
    /\ UNCHANGED << others, C, CA, pushes, base, expect >>

\* s.push_back(e)
VectorPushBack ==
    /\ Live
    /\ s._used < MaxPushes
    /\ VectorCalled(Touched(Vector_push_back(World, "s", base), Vector_push_back_slots(s)),
                    Append(reference, base))
    /\ lastOp' = "push_back"

\* s.push_front(e)
VectorPushFront ==
    /\ Live
    /\ s._used < MaxPushes
    /\ VectorCalled(Touched(Vector_push_front(World, "s", base), Vector_push_front_slots(s)),
                    << base >> \o reference)
    /\ lastOp' = "push_front"

\* s.pop_back()
VectorPopBack ==
    /\ Live
    /\ VectorCalled(Touched(Vector_pop_back(World, "s"), Vector_pop_back_slots(s)),
                    popped("Stack", reference))
    /\ lastOp' = "pop_back"

\* s.pop_front()
VectorPopFront(build) ==
    /\ Live
    /\ VectorCalled(Touched(Vector_pop_front(World, "s", build), Vector_pop_front_slots(s)),
                    popped("Queue", reference))
    /\ lastOp' = "pop_front"

\* s.at(i)
VectorAt(i) ==
    /\ Live
    /\ VectorCalled(Touched(Vector_at(World, "s", i), Vector_at_slots(s, i)), reference)
    /\ lastOp' = "at"

NextVector ==
    \/ VectorPushBack
    \/ VectorPushFront
    \/ VectorPopBack
    \/ \E build \in Builds : VectorPopFront(build)
    \/ \E i \in 0..MaxPushes : VectorAt(i)

SpecVector == InitVector /\ [][NextVector]_vars

(***************************************************************************)
(* Set<int>::H, the set backed by a HashTable.  An entry is its key (the   *)
(* value is an EmptyClass), a bin the sequence of its entries.  The bins   *)
(* are DoubleLists, whose header is not part of the sources: a DoubleList  *)
(* is taken to be a sequence with the member functions HashTable calls.    *)
(***************************************************************************)
MaxSetKeys == 66    \* the keys inserted are 1..MaxSetKeys

\* static const std::size_t MAX_LOAD_FACTOR = 4
MAX_LOAD_FACTOR == 4

\* DoubleList::push_back(e): e becomes the last element.
DoubleList_push_back(bin, e) == Append(bin, e)

\* DoubleList::concat(other): the elements of other follow those of the list.
DoubleList_concat(bin, other) == bin \o other

\* DoubleList::back(): the last element.
DoubleList_back(bin) == bin[Len(bin)]

\* DoubleList::moveBackTo(other): what is left of the list once its last
\* element has been moved to the back of other.
DoubleList_moveBackTo(bin) == SubSeq(bin, 1, Len(bin) - 1)

\* DoubleList::end(): the iterator past the last element.
DoubleList_end == nil

\* Iterator::set(e) on the element at position it.
DoubleList_set(bin, it, e) == [bin EXCEPT ![it] = e]

\* a ^ b on size_t values
RECURSIVE xor(_, _)
xor(a, b) ==
    IF a = 0 THEN b
    ELSE IF b = 0 THEN a
    ELSE ((a + b) % 2) + 2 * xor(a \div 2, b \div 2)

\* hash(int key): (std::size_t)key
hash(key) == key

\* _rehash(h) modulo 2^30, for h below 2^31: h ^= h >> 11; h *= 4294967291;
\* with 4294967291 = 2^32 - 5 the low 30 bits of the product are those of
\* -5h (the 64-bit product does not wrap, and wrapping would not change
\* them).  TLC's integers have 32 bits, so the 64-bit value is not formed.
_rehash_low(h) == (0 - 5 * xor(h, h \div 2048)) % 1073741824

\* _binFor(key): _rehash(hash(key)) % _size, for _size a power of two up to
\* 2^7: the last step h ^= h >> 23 modulo _size takes the low bits of h and
\* the bits of h from 23 on.
_binFor(tb, key) ==
    xor(_rehash_low(hash(key)) % tb._size,
        (_rehash_low(hash(key)) \div 8388608) % tb._size)

\* HashTable(): _size(INITIAL_SIZE), _entryCount(0), _bins = new Bin[_size];
\* HashTable::INITIAL_SIZE is 16 as Vector's is.
HashTable_ctor ==
    [_bins |-> [i \in 0..(INITIAL_SIZE - 1) |-> << >>], _size |-> INITIAL_SIZE,
     _entryCount |-> 0]

\* _findIn(bin, key): the iterator at the first entry with the key: its
\* position in the bin, or bin.end().
_findIn(bin, key) ==
    IF \E i \in 1..Len(bin) : bin[i] = key
    THEN CHOOSE i \in 1..Len(bin) : bin[i] = key /\ \A j \in 1..(i - 1) : bin[j] # key
    ELSE DoubleList_end

\* The first loop of _grow: allEntries.concat(_bins[i]) for i = 0.._size-1.
RECURSIVE allEntries(_, _)
allEntries(tb, i) ==
    IF i = tb._size THEN << >>
    ELSE DoubleList_concat(tb._bins[i], allEntries(tb, i + 1))

\* The second loop of _grow: while (allEntries.size()) the last entry is
\* moved to the back of its bin and counted.
RECURSIVE redistribute(_, _)
redistribute(tb, all) ==
    IF Len(all) = 0 THEN tb
    ELSE redistribute([tb EXCEPT
                          !._bins[_binFor(tb, DoubleList_back(all))] =
                              DoubleList_push_back(@, DoubleList_back(all)),
                          !._entryCount = @ + 1],
                      DoubleList_moveBackTo(all))

\* Twice the bins, the entries left behind.
_grow_empty(tb) ==
    [_bins |-> [i \in 0..(2 * tb._size - 1) |-> << >>], _size |-> 2 * tb._size,
     _entryCount |-> 0]

\* _grow(): twice the bins, every entry put into its bin again.
_grow(tb) ==
    redistribute([_bins |-> [i \in 0..(2 * tb._size - 1) |-> << >>],
                  _size |-> 2 * tb._size, _entryCount |-> 0],
                 allEntries(tb, 0))

\* insert once the entry has been appended to its bin and counted.
grow_if_loaded(tb) ==
    IF tb._entryCount \div tb._size >= MAX_LOAD_FACTOR THEN _grow(tb) ELSE tb

\* HashTable::insert(key, value)
HashTable_insert(tb, key) ==
    IF _findIn(tb._bins[_binFor(tb, key)], key) = DoubleList_end
    THEN grow_if_loaded([tb EXCEPT !._bins[_binFor(tb, key)] = DoubleList_push_back(@, key),
                                   !._entryCount = @ + 1])
    ELSE [tb EXCEPT !._bins[_binFor(tb, key)] =
                        DoubleList_set(@, _findIn(@, key), key)]

\* HashTable::end(): the iterator at the end of the last bin.
HashTable_end(tb) == [_bin |-> tb._size - 1, _it |-> DoubleList_end]

\* HashTable::find(key): the iterator at the entry in its bin, or end().
HashTable_find(tb, key) ==
    IF _findIn(tb._bins[_binFor(tb, key)], key) = DoubleList_end THEN HashTable_end(tb)
    ELSE [_bin |-> _binFor(tb, key), _it |-> _findIn(tb._bins[_binFor(tb, key)], key)]

\* Iterator::operator!=: the bin iterators differ.
Iterator_ne(a, b) == a._it # b._it

HashTable_size(tb) == tb._entryCount

\* DoubleList::operator=(other): the list holds the elements of other, in
\* their order.
DoubleList_assign(bin, other) == other

\* The loop of operator=: for (i = 0; i < other.size(); i++)
\* _bins[i] = other._bins[i], from i on.  other.size() is the number of
\* entries of other; a bin index from _size on is outside both arrays, which
\* is undefined behaviour: the benign build goes on as if the bin had not
\* been touched.
RECURSIVE copy_bins(_, _, _, _)
copy_bins(tb, other, i, build) ==
    IF i >= HashTable_size(other) THEN tb
    ELSE IF i >= tb._size
         THEN (IF build = "fault" THEN Fault(tb, "undefined")
               ELSE copy_bins(tb, other, i + 1, build))
    ELSE copy_bins([tb EXCEPT !._bins[i] = DoubleList_assign(@, other._bins[i])],
                   other, i + 1, build)

\* operator=(other) on the table tb: delete[] _bins; _size = other._size;
\* _bins = new Bin[_size]; _entryCount = other.size(); the loop; return *this.
\* The table it leaves comes with how the call ended.
HashTable_assign(tb, other, build) ==
    copy_bins([_bins |-> [i \in 0..(other._size - 1) |-> << >>], _size |-> other._size,
               _entryCount |-> HashTable_size(other), status |-> "ok"],
              other, 0, build)

\* BaseSet::insert, contains, size
BaseSet_insert(m, key) == HashTable_insert(m, key)

BaseSet_contains(m, key) == Iterator_ne(HashTable_find(m, key), HashTable_end(m))

BaseSet_size(m) == HashTable_size(m)

(***************************************************************************)
(* State machine of the set                                                *)
(***************************************************************************)
SetKeys == 1..MaxSetKeys

InitSet ==
    /\ HeapIdle
    /\ C = "HashTable"
    /\ CA = "BaseSet"
    /\ mem = << >>
    /\ s = nil
    /\ t = nil
    /\ pushes = 0
    /\ base = none
    /\ _m = HashTable_ctor
    /\ TimingIdle
    /\ reference = << >>
    /\ status = "ok"
    /\ lastOp = "BaseSet"
    /\ ret = none
    /\ expect = none
    /\ visited = << >>

\* The keys the reference holds.
Members == {reference[i] : i \in 1..Len(reference)}

\* set.insert(key) of a key the set is to hold already
InsertPresent(key) ==
    /\ key \in Members
    /\ _m' = BaseSet_insert(_m, key)
    /\ lastOp' = "insert present"
    /\ ret' = none
    /\ expect' = none
    /\ UNCHANGED << heap, timing, C, CA, mem, s, t, pushes, base, reference, status, visited >>

\* set.insert(key) of a key the set is not to hold yet: the least such key
InsertAbsent(key) ==
    /\ key = Len(reference) + 1
    /\ _m' = BaseSet_insert(_m, key)
    /\ reference' = Append(reference, key)
    /\ lastOp' = "insert absent"
    /\ ret' = none
    /\ expect' = none
    /\ UNCHANGED << heap, timing, C, CA, mem, s, t, pushes, base, status, visited >>

\* set.contains(key)
Contains(key) ==
    /\ ret' = BaseSet_contains(_m, key)
    /\ expect' = (key \in Members)
    /\ lastOp' = "contains"
    /\ UNCHANGED << heap, timing, C, CA, mem, s, t, pushes, base, reference, status, visited, _m >>

\* set.size()
SetSize ==
    /\ ret' = BaseSet_size(_m)
    /\ expect' = Len(reference)
    /\ lastOp' = "size"
    /\ UNCHANGED << heap, timing, C, CA, mem, s, t, pushes, base, reference, status, visited, _m >>

NextSet ==
    \/ \E key \in SetKeys : InsertPresent(key)
    \/ \E key \in SetKeys : InsertAbsent(key)
    \/ \E key \in SetKeys : Contains(key)
    \/ SetSize

SpecSet == InitSet /\ [][NextSet]_vars

(***************************************************************************)
(* The hash table _m filled and assigned to a second table, which t holds  *)
(***************************************************************************)
InitHashTable ==
    /\ HeapIdle
    /\ C = "HashTable"
    /\ CA = ""
    /\ mem = << >>
    /\ s = nil
    /\ t = HashTable_ctor
    /\ pushes = 0
    /\ base = none
    /\ _m = HashTable_ctor
    /\ TimingIdle
    /\ reference = << >>
    /\ status = "ok"
    /\ lastOp = "HashTable"
    /\ ret = none
    /\ expect = none
    /\ visited = << >>

\* The table a call left, without how the call ended.
Table(r) == [_bins |-> r._bins, _size |-> r._size, _entryCount |-> r._entryCount]

\* _m.insert(key, value) of a new key
TableInsert(key) ==
    /\ status = "ok"
    /\ InsertAbsent(key)

\* _m.insert(key, value) of a key _m holds
TableInsertPresent(key) ==
    /\ status = "ok"
    /\ InsertPresent(key)

\* the assignment of table left r
Assigned(r) ==
    /\ t' = Table(r)
    /\ status' = r.status

\* t = _m
TableAssign(build) ==
    /\ status = "ok"
    /\ Assigned(HashTable_assign(t, _m, build))
    /\ lastOp' = "operator="
    /\ ret' = none
    /\ expect' = none
    /\ UNCHANGED << heap, timing, C, CA, mem, s, pushes, base, reference, visited, _m >>

NextHashTable ==
    \/ \E key \in SetKeys : TableInsert(key)
    \/ \E key \in SetKeys : TableInsertPresent(key)
    \/ \E build \in Builds : TableAssign(build)

SpecHashTable == InitHashTable /\ [][NextHashTable]_vars

(***************************************************************************)
(* timing.hpp: the timing manager.  tm is the record of its static members *)
(* with the clock, how the call ended (status) and what it wrote or threw  *)
(* (out).                                                                  *)
(***************************************************************************)
MaxClock == 7    \* the readings of the clock are 1..MaxClock

\* the names of the functions timed
FrameFunctions == {"insert", "extract_min"}

\* test.cpp's functions for on_start and on_finish
Callbacks == {"log_start_timing", "log_finish_timing"}

\* clock::time_point(): the epoch
epoch == 0

\* clock::now(): a reading later than the one before
now(tm) == tm.clock + 1

\* snapshot(frame_function_name), the clock read as time
snapshot(frame_function_name, time) ==
    [stack_frame |-> frame_function_name, start_time |-> time,
     finish_time |-> epoch, finished |-> FALSE]

\* throw std::logic_error{ what }
throw(tm, what) == [Fault(tm, "exception") EXCEPT !.out = << what >>]

\* snapshot::finalize(finish) on timing_registry.back()
finalize(tm, finish) ==
    IF tm.timing_registry[Len(tm.timing_registry)].finished
    THEN throw(tm, "This frame is already finished!")
    ELSE [tm EXCEPT !.timing_registry[Len(tm.timing_registry)] =
                        [@ EXCEPT !.finish_time = finish, !.finished = TRUE]]

\* test.cpp's log_start_timing and log_finish_timing called with the snapshot
\* sn: the first writes frame_function(), the second frame_function() and
\* elapsed(), where finish() throws for a snapshot that is not finished.  An
\* empty std::function is not called.
call(tm, fn, sn) ==
    IF tm.status # "ok" \/ fn = "" THEN tm
    ELSE IF fn = "log_start_timing" THEN [tm EXCEPT !.out = << sn.stack_frame >>]
    ELSE IF ~sn.finished THEN throw(tm, "Timing frame not finished!")
    ELSE [tm EXCEPT !.out = << sn.stack_frame, sn.finish_time - sn.start_time >>]

\* timing_manager::start_frame(frame_function_name)
start_frame(tm, frame_function_name) ==
    call([tm EXCEPT !.timing_stack = Append(@, snapshot(frame_function_name, now(tm))),
                    !.clock = now(tm)],
         tm._on_start, snapshot(frame_function_name, now(tm)))

\* finish_frame with the oldest frame of the stack taken for the latest
finish_oldest(tm) ==
    IF Len(tm.timing_stack) = 0
    THEN throw([tm EXCEPT !.clock = now(tm)], "The call stack is empty!")
    ELSE finalize([tm EXCEPT !.timing_registry = Append(@, tm.timing_stack[1]),
                             !.timing_stack = Tail(@),
                             !.clock = now(tm)],
                  now(tm))

\* timing_manager::finish_frame() up to the call of _on_finish
finish_latest(tm) ==
    IF Len(tm.timing_stack) = 0
    THEN throw([tm EXCEPT !.clock = now(tm)], "The call stack is empty!")
    ELSE finalize([tm EXCEPT !.timing_registry =
                                 Append(@, tm.timing_stack[Len(tm.timing_stack)]),
                             !.timing_stack = SubSeq(@, 1, Len(@) - 1),
                             !.clock = now(tm)],
                  now(tm))

\* _on_finish(timing_registry.back()) once the frame has been finished
notify_finish(tm) ==
    IF tm.status # "ok" THEN tm
    ELSE call(tm, tm._on_finish, tm.timing_registry[Len(tm.timing_registry)])

\* timing_manager::finish_frame()
finish_frame(tm) == notify_finish(finish_latest(tm))

\* timing_manager::on_start(f) and on_finish(f)
on_start(tm, fn) == [tm EXCEPT !._on_start = fn]

on_finish(tm, fn) == [tm EXCEPT !._on_finish = fn]

(***************************************************************************)
(* State machine of the timing manager                                     *)
(***************************************************************************)
InitTiming ==
    /\ HeapIdle
    /\ C = ""
    /\ CA = ""
    /\ mem = << >>
    /\ s = nil
    /\ t = nil
    /\ pushes = 0
    /\ base = none
    /\ _m = nil
    /\ reference = << >>
    /\ TimingIdle
    /\ status = "ok"
    /\ lastOp = "timing_manager"
    /\ ret = << >>
    /\ expect = none
    /\ visited = << >>

\* The timing manager as the calls find it.
Manager ==
    [timing_stack |-> timing_stack, timing_registry |-> timing_registry,
     _on_start |-> _on_start, _on_finish |-> _on_finish, clock |-> clock,
     status |-> "ok", out |-> << >>]

StoreManager(tm) ==
    /\ timing_stack' = tm.timing_stack
    /\ timing_registry' = tm.timing_registry
    /\ _on_start' = tm._on_start
    /\ _on_finish' = tm._on_finish
    /\ clock' = tm.clock
    /\ status' = tm.status
    /\ ret' = tm.out
    /\ UNCHANGED << heap, C, CA, mem, s, t, pushes, base, _m, reference, expect, visited >>

StartFrame(frame_function_name) ==
    /\ clock < MaxClock
    /\ StoreManager(start_frame(Manager, frame_function_name))
    /\ lastOp' = "start_frame"

FinishFrame ==
    /\ clock < MaxClock
    /\ StoreManager(finish_frame(Manager))
    /\ lastOp' = "finish_frame"

OnStart(fn) ==
    /\ StoreManager(on_start(Manager, fn))
    /\ lastOp' = "on_start"

OnFinish(fn) ==
    /\ StoreManager(on_finish(Manager, fn))
    /\ lastOp' = "on_finish"

NextTiming ==
    \/ \E frame_function_name \in FrameFunctions : StartFrame(frame_function_name)
    \/ FinishFrame
    \/ \E fn \in Callbacks : OnStart(fn)
    \/ \E fn \in Callbacks : OnFinish(fn)

SpecTiming == InitTiming /\ [][NextTiming]_vars

(***************************************************************************)
(* Vocabulary of the properties                                            *)
(***************************************************************************)
\* The nodes stored in the heap: created by insert and not yet destroyed.
Stored == (1..Len(node)) \ destroyed

\* v1..vn, the values inserted so far, in insertion order.
inserted == [i \in 1..Len(node) |-> node[i].key]

KeyCount(sq, k) == Cardinality({i \in 1..Len(sq) : sq[i] = k})

NonDecreasing(sq) == \A i \in 1..(Len(sq) - 1) : ~_compare(sq[i + 1], sq[i])

RECURSIVE Sorted(_)
Sorted(sq) == IF sq = << >> THEN << >> ELSE push_heap(Sorted(Tail(sq)), Head(sq))

\* The last call was a mutating operation and it has ended in a way that
\* leaves the heap to the program: it returned, or it left by an exception.
AfterMutation == lastOp \in {"insert", "extract_min"} /\ status \in {"ok", "exception"}

\* The last call was a mutating operation and it returned.
Returned == lastOp \in {"insert", "extract_min"} /\ status = "ok"

\* The full traversal from _min (do_foreach), as an observer of the state.
Traversal == foreach(Heap)

NoDuplicates(sq) == \A i, j \in 1..Len(sq) : sq[i] = sq[j] => i = j

\* _count_siblings(n): the length of the circular list entered at n, or -1
\* when following right never comes back to n.
RECURSIVE CountFrom(_, _, _)
CountFrom(start, n, k) ==
    IF k > Len(node) \/ n = nil THEN -1
    ELSE IF node[n].right = start THEN k
    ELSE CountFrom(start, node[n].right, k + 1)

_count_siblings(n) == IF n = nil THEN 0 ELSE CountFrom(n, n, 1)

_count_childs(n) == _count_siblings(node[n].child)

\* n is among its own ancestors (k bounds the walk up the parent links).
RECURSIVE OwnAncestor(_, _, _)
OwnAncestor(n, p, k) ==
    IF p = nil \/ k = 0 THEN FALSE
    ELSE IF p = n THEN TRUE
    ELSE OwnAncestor(n, node[p].parent, k - 1)

\* The root list: the nodes met from _min by following right, up to the
\* return to _min (k bounds the walk when the list does not close).
RECURSIVE RootsFrom(_, _)
RootsFrom(n, k) ==
    IF n = nil \/ k = 0 THEN {}
    ELSE IF node[n].right = _min THEN {n}
    ELSE {n} \cup RootsFrom(node[n].right, k - 1)

Roots == RootsFrom(_min, Len(node))

\* The root list closes: following right from _min comes back to _min.
RootListCloses == _min = nil \/ _count_siblings(_min) > 0


(***************************************************************************)
(* Properties                                                              *)
(***************************************************************************)
\* C1: after v1..vn were inserted into an empty heap, the k-th of n calls of
\* extract_min returns, and the values returned so far are the k least of
\* v1..vn in non-decreasing order (so n calls return the whole multiset).
C1_ExtractInsertDuality ==
    (phase = "drain" /\ lastOp = "extract_min" /\ expect # none) =>
        /\ status = "ok"
        /\ NonDecreasing(extracted)
        /\ extracted = SubSeq(Sorted(inserted), 1, Len(extracted))
        /\ Len(extracted) + Len(queue) = Len(inserted)

\* C2: on a non-empty heap every min() equals the reference queue's top and
\* every extract_min returns what the reference queue pops.
C2_ReferenceEquivalence ==
    (lastOp \in {"min", "extract_min"} /\ expect # none) =>
        (status = "ok" /\ ret = expect)

\* C3: after every insert and every extract_min, if the heap is not empty
\* then compare(min.key, n.key) or min.key == n.key for every stored node n.
C3_MinCorrect ==
    (AfterMutation /\ _min # nil) =>
        \A n \in Stored : \/ _compare(node[_min].key, node[n].key)
                          \/ node[_min].key = node[n].key

\* C4: foreach visits each stored value exactly once: the multiset of the
\* values it visits is the multiset inserted minus the multiset extract_min
\* returned.
C4_ForeachVisitsStored ==
    (lastOp = "foreach") =>
        /\ status = "ok"
        /\ \A k \in Keys : KeyCount(visited, k) = KeyCount(inserted, k) - KeyCount(extracted, k)

\* C5: after every insert and every extract_min the full traversal from min
\* reaches size() nodes, and size() is the number of inserts minus the number
\* of extract_min calls.
C5_SizeTraversal ==
    Returned =>
        /\ Traversal.status = "ok"
        /\ Len(Traversal.out) = _size
        /\ _size = _allocations - Len(extracted)

\* C6: after every insert and every extract_min every node n with a parent p
\* has compare(p.key, n.key) or p.key == n.key.
C6_HeapOrder ==
    Returned =>
        \A n \in Stored : node[n].parent # nil =>
            \/ _compare(node[node[n].parent].key, node[n].key)
            \/ node[node[n].parent].key = node[n].key

\* C7: after every insert and every extract_min every stored node n has
\* non-null left and right with n.left.right == n and n.right.left == n.
C7_SiblingCircularity ==
    AfterMutation =>
        \A n \in Stored : /\ node[n].left # nil
                          /\ node[n].right # nil
                          /\ node[node[n].left].right = n
                          /\ node[node[n].right].left = n

\* C8: after every insert and every extract_min every node's degree is the
\* length of the sibling list headed by its child, and degree == 0 exactly
\* when child is null.
C8_DegreeIsChildCount ==
    Returned =>
        \A n \in Stored : /\ node[n].degree = _count_childs(n)
                          /\ (node[n].degree = 0) <=> (node[n].child = nil)

\* C9: after every insert and every extract_min no node is its own parent,
\* child or ancestor, and the full traversal from min ends without visiting
\* a node twice (no node is in two sibling lists).
C9_AcyclicNoDuplicates ==
    Returned =>
        /\ \A n \in Stored : /\ node[n].child # n
                             /\ ~OwnAncestor(n, node[n].parent, Len(node))
        /\ Traversal.status = "ok"
        /\ NoDuplicates(Traversal.out)

\* C10: after every insert and every extract_min, min is null exactly when
\* size() == 0, and a non-null min references a node whose parent is null.
C10_MinNullIffEmpty ==
    Returned =>
        /\ (_min = nil) <=> (_size = 0)
        /\ _min # nil => node[_min].parent = nil

\* C11: insert on an empty heap makes the new node min; insert(v) with
\* compare(v, min.key) makes the new node min, so that min() == v; insert(v)
\* without compare(v, min.key) leaves min on the node it was on.
C11_InsertMonotonicMin ==
    [][lastOp' = "insert" =>
        /\ status' = "ok"
        /\ _min = nil => _min' = Len(node')
        /\ (_min # nil /\ _compare(node'[Len(node')].key, node[_min].key)) =>
              (_min' = Len(node') /\ min(Heap').ret = node'[Len(node')].key)
        /\ (_min # nil /\ ~_compare(node'[Len(node')].key, node[_min].key)) =>
              _min' = _min]_vars

\* An insert of a key less than min's into a heap that has seen an extract_min.
C11_Witness ==
    /\ lastOp = "insert" /\ status = "ok"
    /\ _size >= 2 /\ _min = Len(node) /\ Len(extracted) >= 1

\* C12: min() or extract_min() on a heap with zero elements hands an
\* EmptyHeap error to its caller (the call ends by an error the caller
\* receives, neither by a value nor by the end of the process) and leaves
\* min, size, every link and the allocation counters as they were.
C12_EmptyHeapError ==
    [][(lastOp' \in {"min", "extract_min"} /\ _size = 0) =>
        /\ status' = "exception"
        /\ UNCHANGED << node, destroyed, _min, _size, _allocations, _deallocations >>]_vars

\* C13: each extract_min destroys exactly one node (M nodes after M calls),
\* and once the heap is destroyed every node created has been destroyed
\* exactly once: the destructor returns, N creations and N destructions have
\* happened, N - M of them in the destructor.
C13_AllocationBalance ==
    /\ (Live /\ lastOp # "FibHeap") => _deallocations = Len(extracted)
    /\ lastOp = "~FibHeap" =>
          /\ status = "ok"
          /\ _allocations = Len(node)
          /\ _deallocations = _allocations
          /\ destroyed = 1..Len(node)

\* C14: with 5, 3, 8, 1, 9, 2 inserted in that order into an empty heap,
\* min() reads 1 once 1 is in (also after 9 and after 2), and the six calls
\* of extract_min that follow return 1, 2, 3, 5, 8, 9 in that order and
\* leave the heap empty.
C14_ExampleScenario ==
    /\ (lastOp = "min" /\ phase = "fill" /\ Len(inserted) >= 4
            /\ inserted = SubSeq(Example, 1, Len(inserted))) =>
          (status = "ok" /\ ret = 1)
    /\ (lastOp = "extract_min" /\ inserted = Example) =>
          /\ status = "ok"
          /\ extracted = SubSeq(<< 1, 2, 3, 5, 8, 9 >>, 1, Len(extracted))
          /\ Len(extracted) = Len(Example) => (_min = nil /\ _size = 0)

\* C15: right after an extract_min that leaves the heap non-empty, no two
\* roots of the root list have the same degree (the same number of children).
C15_DistinctRootDegrees ==
    (lastOp = "extract_min" /\ status = "ok" /\ _min # nil) =>
        /\ RootListCloses
        /\ \A x, y \in Roots : x # y => _count_childs(x) # _count_childs(y)

\* ceil(log2(n)) for n >= 1: the least k with 2^k >= n.
RECURSIVE CeilLog2(_)
CeilLog2(n) == IF n <= 1 THEN 0 ELSE 1 + CeilLog2((n + 1) \div 2)

\* C16: right after an extract_min that leaves n >= 1 elements, the root
\* list has at most ceil(log2(n)) + 1 roots.
C16_RootCountBound ==
    (lastOp = "extract_min" /\ status = "ok" /\ _size >= 1) =>
        Cardinality(Roots) <= CeilLog2(_size) + 1

\* C17: insert(v) adds exactly one node, which is a root of the root list
\* entered at min with degree 0, no parent, no child and mark false; the
\* root list grows by exactly one node and every node that was there before
\* keeps its key, parent, child, degree and mark.
C17_InsertFrame ==
    [][lastOp' = "insert" =>
        /\ status' = "ok"
        /\ Len(node') = Len(node) + 1
        /\ node'[Len(node')].degree = 0
        /\ node'[Len(node')].parent = nil
        /\ node'[Len(node')].child = nil
        /\ node'[Len(node')].modified = FALSE
        /\ Len(node') \in Roots'
        /\ Cardinality(Roots') = Cardinality(Roots) + 1
        /\ \A n \in 1..Len(node) :
              /\ node'[n].key = node[n].key
              /\ node'[n].parent = node[n].parent
              /\ node'[n].child = node[n].child
              /\ node'[n].degree = node[n].degree
              /\ node'[n].modified = node[n].modified]_vars

\* C18: every extract_min on a non-empty heap terminates: the traversal of
\* _consolidate and the registry loop end after finitely many steps.
C18_ExtractMinTerminates ==
    (lastOp = "extract_min" /\ expect # none) => status # "diverge"

\* C19: when node creation fails during insert, the failure reaches the
\* caller (insert leaves by the exception) and min, size, every node and
\* link and the factory's counters are as before the call.
C19_InsertAllocationFailure ==
    [][lastOp' = "insert: bad_alloc" =>
        /\ status' = "exception"
        /\ UNCHANGED << node, destroyed, _min, _size, _allocations, _deallocations >>]_vars

\* An insert whose allocation failed, on a heap that holds elements and has
\* seen an extract_min.
C19_Witness ==
    /\ lastOp = "insert: bad_alloc" /\ status = "exception"
    /\ _size >= 2 /\ Len(extracted) >= 1

\* The heap has just been emptied by extract_min: the call returned, and
\* every element has been removed or the heap says it is empty.
Emptied == lastOp = "extract_min" /\ status = "ok" /\ (queue = << >> \/ empty(Heap))

\* C20 (state): once extract_min has emptied the heap, every element has
\* been removed and the heap is in the state of a newly constructed heap:
\* min null, size 0, no node alive.
C20_EmptiedIsFresh ==
    Emptied =>
        /\ queue = << >>
        /\ _min = nil
        /\ _size = 0
        /\ Stored = {}
        /\ alive(Heap) = 0

\* C20 (reuse): from the moment the heap has been emptied, every insert and
\* extract_min ends on it as the same call does on a newly constructed heap
\* that is given the same calls, and returns the same value.
C20_ReuseLikeFresh ==
    (shadow.status # "off" /\ shadow # Fresh /\ lastOp \in {"insert", "extract_min"}) =>
        (status = shadow.status /\ ret = shadow.ret)

\* C20: a heap emptied by extract_min is reusable: it is in the state of a
\* newly constructed heap, and the calls that follow end and return as they
\* do on a newly constructed heap.
C20_EmptiedReusable == C20_EmptiedIsFresh /\ C20_ReuseLikeFresh

\* The heap was emptied, then given three inserts and an extract_min that
\* returned (the calls ran through _consolidate), as was the second heap.
C20_Witness ==
    /\ shadow.status = "ok" /\ Len(shadow.node) >= 3
    /\ lastOp = "extract_min" /\ status = "ok" /\ _size >= 2

\* C21: Queue is first-in first-out over SingleList, Vector and CVector:
\* after any pushes and pops that never pop an empty queue, front() returns
\* the earliest pushed element not yet popped, back() the element pushed
\* last, and size() the number of pushes minus the number of pops; a pop of
\* a queue that is not empty returns.
C21_QueueFIFO ==
    /\ (lastOp = "front" /\ reference # << >>) =>
            (status = "ok" /\ ret = reference[1])
    /\ (lastOp = "back" /\ reference # << >>) =>
            (status = "ok" /\ ret = reference[Len(reference)])
    /\ lastOp = "size s" => (status = "ok" /\ ret = Len(reference))
    /\ (lastOp = "pop" /\ reference # << >>) => status = "ok"

\* The elements a container holds, first to last: the used slots of a
\* Vector, the slots from _start to _end of a CVector, the nodes from
\* _first of a SingleList.
RECURSIVE chain(_, _)
chain(m, n) == IF n = nil THEN << >> ELSE << m[n]._elem >> \o chain(m, m[n]._next)

Contents(c, m, o) ==
    CASE c = "Vector" -> [k \in 1..o._used |-> m[o._v][k - 1]]
      [] c = "CVector" -> [k \in 1..Len(slots(o, o._start)) |->
                              m[o._v][slots(o, o._start)[k]]]
      [] c = "SingleList" -> chain(m, o._first)

Held(x) == Contents(C, mem, IF x = "s" THEN s ELSE t)

\* C22: the copy assignment t = s between the two containers returns and
\* leaves t with as many elements as s, in the same order, and s as it was;
\* no push or pop on s changes what t holds.
C22_CopyAssignment ==
    [][/\ lastOp' = "operator=" =>
            /\ status' = "ok"
            /\ Held("t")' = Held("s")
            /\ Held("s")' = Held("s")
            /\ (adapter_size(CA, C, World, "t").ret)' = adapter_size(CA, C, World, "s").ret
       /\ lastOp' \in {"push", "pop"} => Held("t")' = Held("t")]_vars

\* C23: CVector behaves as a double-ended sequence: over any push_back,
\* push_front, pop_back and pop_front, with pops only failing on an empty
\* CVector, size(), front(), back(), at(i) for every i < size() and the
\* iteration from begin() to end() answer as the reference sequence does,
\* also after the buffer has wrapped around and after it has grown.
C23_CVectorDeque ==
    /\ lastOp \in {"push_back", "push_front"} => status = "ok"
    /\ (lastOp \in {"pop_back", "pop_front"} /\ status # "ok") => reference = << >>
    /\ lastOp = "size" => (status = "ok" /\ ret = expect)
    /\ (lastOp \in {"front", "back"} /\ reference # << >>) =>
            (status = "ok" /\ ret = expect)
    /\ (lastOp = "at" /\ expect # none) => (status = "ok" /\ ret = expect)
    /\ lastOp = "begin..end" => (status = "ok" /\ visited = reference)

\* The buffer has grown and has wrapped around again, and an iteration
\* has gone through it.
C23_Witness ==
    /\ C = "CVector"
    /\ lastOp = "begin..end"
    /\ status = "ok"
    /\ s._max > INITIAL_SIZE
    /\ s._end < s._start
    /\ Len(reference) > INITIAL_SIZE
    /\ visited = reference

\* C24: set.insert(key) of a key the set holds leaves size() as it was, and
\* the key and every other key held stay contained; set.insert(key) of a key
\* the set does not hold makes size() one more and the key contained, the
\* keys held before staying contained, also when the insertion makes the
\* table grow.
C24_SetInsert ==
    [][ /\ lastOp' = "insert present" =>
              /\ BaseSet_size(_m') = BaseSet_size(_m)
              /\ \A key \in SetKeys : BaseSet_contains(_m', key) = (key \in Members)
        /\ lastOp' = "insert absent" =>
              /\ BaseSet_size(_m') = BaseSet_size(_m) + 1
              /\ \A key \in SetKeys : BaseSet_contains(_m', key) = (key \in Members')
      ]_vars

\* an insertion of an absent key has just made the table grow
C24_Witness ==
    /\ lastOp = "insert absent"
    /\ _m._size = 2 * INITIAL_SIZE
    /\ BaseSet_size(_m) = MAX_LOAD_FACTOR * INITIAL_SIZE

\* the snapshots of a sequence of them
Range(snapshots) == {snapshots[i] : i \in 1..Len(snapshots)}

\* the frames started and not finished: the snapshots not finished, wherever
\* the manager keeps them
Unfinished == {sn \in Range(timing_stack) \cup Range(timing_registry) : ~sn.finished}

\* the frame of Unfinished started last
Latest == CHOOSE sn \in Unfinished : \A other \in Unfinished : other.start_time <= sn.start_time

\* C25: after every call every snapshot of the registry is finished, every
\* snapshot of the stack is not, every frame started is kept once, and
\* finalize has not found its snapshot finished already; and a finish_frame
\* called with frames open takes the frame started last among those not
\* finished out of the stack, the others staying in their order, and puts
\* it, finished, at the end of the registry.
C25_FinishFrameLIFO ==
    [][ /\ \A sn \in Range(timing_registry') : sn.finished
        /\ \A sn \in Range(timing_stack') : ~sn.finished
        /\ \A i, j \in 1..Len(timing_stack' \o timing_registry') :
               i # j => (timing_stack' \o timing_registry')[i].start_time
                            # (timing_stack' \o timing_registry')[j].start_time
        /\ ~(status' = "exception" /\ ret' = << "This frame is already finished!" >>)
        /\ lastOp' = "finish_frame" /\ Unfinished # {} =>
               /\ Latest \in Range(timing_stack)
               /\ timing_stack' = SelectSeq(timing_stack, LAMBDA sn : sn # Latest)
               /\ Len(timing_registry') = Len(timing_registry) + 1
               /\ SubSeq(timing_registry', 1, Len(timing_registry)) = timing_registry
               /\ timing_registry'[Len(timing_registry')].stack_frame = Latest.stack_frame
               /\ timing_registry'[Len(timing_registry')].start_time = Latest.start_time
               /\ timing_registry'[Len(timing_registry')].finished
      ]_vars

\* an inner frame has been finished before the frame around it, and a frame
\* is still open
C25_Witness ==
    /\ lastOp = "finish_frame"
    /\ status = "ok"
    /\ Len(timing_stack) >= 1
    /\ Len(timing_registry) >= 2
    /\ timing_registry[1].start_time > timing_registry[2].start_time

\* the places of the trace where the call is at the place named
At(place) == {i \in 1..Len(trace) : trace[i].at = place}

\* the nodes met from n on by following right, k nodes at most, among the
\* nodes nd
RECURSIVE RightFrom(_, _, _)
RightFrom(nd, n, k) ==
    IF k = 0 \/ n \notin DOMAIN nd THEN {}
    ELSE {n} \cup RightFrom(nd, nd[n].right, k - 1)

\* the root list where the trace is at place i: the nodes met from n on
RootsAt(i, n) == RightFrom(trace[i].node, n, Len(trace[i].node))

\* the node n has no parent where the trace is at place i
Parentless(i, n) == n \in DOMAIN trace[i].node /\ trace[i].node[n].parent = nil

\* C26: in a consolidation the per-root step takes as x only nodes of the
\* root list the consolidation began with, none of them twice and, when the
\* call returns, each of them; and a node taken as x, a node compared and
\* linked, and a node stored in the registry has no parent at that moment.
C26_PerRootStepOncePerRoot ==
    \A c \in At("_consolidate") :
        /\ \A i \in At("x = root") :
               /\ trace[i].x \in RootsAt(c, trace[c].x)
               /\ Parentless(i, trace[i].x)
               /\ \A j \in At("x = root") : trace[i].x = trace[j].x => i = j
        /\ status = "ok" =>
               \A r \in RootsAt(c, trace[c].x) : \E i \in At("x = root") : trace[i].x = r
        /\ \A i \in At("_link") : Parentless(i, trace[i].x) /\ Parentless(i, trace[i].y)
        /\ \A i \in At("registry(degree) = x") : Parentless(i, trace[i].x)

\* the links the call made and returned from: the places of the trace where
\* _link(x, y) starts, the next place being where it is done
Links == {i \in At("_link") : i < Len(trace) /\ trace[i + 1].at = "_link done"}

\* C27: every link(x, y) with x # y made by a consolidation takes y out of
\* the root list x is in, makes y a member of the sibling list of x's
\* children with y.parent = x, makes x.degree one more, clears y's mark and
\* leaves x in the root list.
C27_LinkEffects ==
    \A i \in Links :
        trace[i].x # trace[i].y =>
            /\ trace[i].y \notin RootsAt(i + 1, trace[i].x)
            /\ trace[i].y \in RootsAt(i + 1, trace[i + 1].node[trace[i].x].child)
            /\ trace[i + 1].node[trace[i].y].parent = trace[i].x
            /\ trace[i + 1].node[trace[i].x].degree = trace[i].node[trace[i].x].degree + 1
            /\ ~trace[i + 1].node[trace[i].y].modified
            /\ Parentless(i + 1, trace[i].x)
            /\ RootsAt(i + 1, trace[i].x) = RootsAt(i, trace[i].x) \ {trace[i].y}

\* the nodes in the slots of the registry that are not null, where the
\* trace is at place i
Registered(i) == {trace[i].a[d] : d \in 1..Len(trace[i].a)} \ {nil}

\* C28: where a consolidation is done, the nodes met from min on by
\* following right are the nodes in the slots of the registry that are not
\* null, the right pointers lead through each of them once and back to min,
\* left is the inverse of right on them, and no key among them is before
\* min's.
C28_RebuiltRootList ==
    \A i \in At("_consolidate done") :
        /\ trace[i]._min \in Registered(i)
        /\ RootsAt(i, trace[i]._min) = Registered(i)
        /\ \A n \in Registered(i) :
               /\ trace[i].node[n].right \in Registered(i)
               /\ trace[i].node[trace[i].node[n].right].left = n
               /\ trace[i].node[n].left \in Registered(i)
               /\ trace[i].node[trace[i].node[n].left].right = n
               /\ ~_compare(trace[i].node[n].key, trace[i].node[trace[i]._min].key)

\* C29: in every link a consolidation makes, the node made the child has
\* no key before the key of the node made its parent, whether the two keys
\* differ or are equal.
C29_SmallerKeyBecomesParent ==
    \A i \in At("_link") :
        ~_compare(trace[i].node[trace[i].y].key, trace[i].node[trace[i].x].key)

\* a consolidation has linked two roots of the same degree with different
\* keys, and two with equal keys
C29_Witness ==
    /\ lastOp = "extract_min"
    /\ status = "ok"
    /\ \E i \in Links :
           /\ Parentless(i, trace[i].x) /\ Parentless(i, trace[i].y)
           /\ trace[i].node[trace[i].x].degree = trace[i].node[trace[i].y].degree
           /\ trace[i].node[trace[i].x].key < trace[i].node[trace[i].y].key
    /\ \E i \in Links :
           /\ Parentless(i, trace[i].x) /\ Parentless(i, trace[i].y)
           /\ trace[i].node[trace[i].x].degree = trace[i].node[trace[i].y].degree
           /\ trace[i].node[trace[i].x].key = trace[i].node[trace[i].y].key

\* the root list the call was made with, and the children of its minimum
RootsBefore == RightFrom(node, _min, Len(node))

ChildrenOfMin == RightFrom(node, node[_min].child, Len(node))

\* the root list where the trace of the call is at place i, z unlinked: the
\* nodes met from z's former right neighbour on (none when that is z)
RootsUnlinked(i) ==
    IF trace'[i].y = _min THEN {}
    ELSE RightFrom(trace'[i].node, trace'[i].y, Len(trace'[i].node))

\* C30: in extract_min, where the minimum z has been unlinked and the
\* consolidation has not begun, every node that was a child of z is in the
\* root list and has no parent, every other node of the root list the call
\* was made with is in the root list, and no node but z has z as its left or
\* its right.
C30_ChildrenSplicedBeforeConsolidation ==
    [][ lastOp' = "extract_min" =>
          \A i \in {j \in 1..Len(trace') : trace'[j].at = "z unlinked"} :
              /\ \A n \in ChildrenOfMin :
                     n \in RootsUnlinked(i) /\ trace'[i].node[n].parent = nil
              /\ RootsBefore \ {_min} \subseteq RootsUnlinked(i)
              /\ \A n \in (DOMAIN trace'[i].node) \ (trace'[i].destroyed \cup {_min}) :
                     trace'[i].node[n].left # _min /\ trace'[i].node[n].right # _min
      ]_vars

\* the consolidations the call began, and those it was done with
Consolidations == {i \in 1..Len(trace') : trace'[i].at = "_consolidate"}

ConsolidationsDone == {i \in 1..Len(trace') : trace'[i].at = "_consolidate done"}

\* C31: extract_min on a heap that holds one element returns the element,
\* leaves min null and size 0 and begins no consolidation; extract_min on a
\* heap that holds two elements or more returns, having begun one
\* consolidation and finished it, and leaves min not null.
C31_ExtractMinBranches ==
    [][ lastOp' = "extract_min" =>
          /\ Len(queue) = 1 =>
                /\ status' = "ok"
                /\ ret' = Head(queue)
                /\ _min' = nil
                /\ _size' = 0
                /\ Consolidations = {}
          /\ Len(queue) >= 2 =>
                /\ status' = "ok"
                /\ Cardinality(Consolidations) = 1
                /\ Cardinality(ConsolidationsDone) = 1
                /\ _min' # nil
      ]_vars

\* C32: after every insert and every extract_min that leaves the heap to its
\* caller (by returning or by an exception) the nodes the factory counts as
\* alive are size() many and the deallocations do not exceed the
\* allocations; an insert that returns has created one node and destroyed
\* none, an extract_min that returns has destroyed one node and created
\* none.
C32_FactoryBalance ==
    [][ /\ lastOp' \in {"insert", "insert: bad_alloc", "extract_min"}
              /\ status' \in {"ok", "exception"} =>
                  /\ _allocations' - _deallocations' = _size'
                  /\ _allocations' >= _deallocations'
        /\ lastOp' = "insert" /\ status' = "ok" =>
              /\ _allocations' = _allocations + 1
              /\ _deallocations' = _deallocations
              /\ Len(node') = Len(node) + 1
              /\ destroyed' = destroyed
        /\ lastOp' = "extract_min" /\ status' = "ok" =>
              /\ _allocations' = _allocations
              /\ _deallocations' = _deallocations + 1
              /\ Cardinality(destroyed') = Cardinality(destroyed) + 1
              /\ Len(node') = Len(node)
      ]_vars

\* the pointers of node n, and the nodes holding a pointer to a destroyed node
Pointers(n) == {node[n].parent, node[n].child, node[n].left, node[n].right} \ {nil}
Dangling == {n \in Stored : Pointers(n) \cap destroyed # {}}

\* C33: an extract_min that leaves the heap to its caller (by returning or by
\* an exception) has destroyed exactly the node that was min when the call
\* began, and after every insert and extract_min that leaves the heap to its
\* caller neither min nor a parent, child, left or right pointer of a stored
\* node refers to a destroyed node.
C33_NoDanglingReference ==
    [][ /\ lastOp' = "extract_min" /\ status' \in {"ok", "exception"} =>
              destroyed' = destroyed \cup {_min}
        /\ lastOp' \in {"insert", "extract_min"} /\ status' \in {"ok", "exception"} =>
              /\ Dangling' = {}
              /\ _min' \notin destroyed'
      ]_vars

\* the accesses to the registry the call made
Accesses == {i \in 1..Len(trace') : trace'[i].at = "a[degree]"}

\* C34: every access a[degree] of an extract_min finds degree inside the
\* registry as setup_registry left it: 0 <= degree < a.size(), whatever the
\* heap and its size.
C34_RegistryAccessInside ==
    [][ lastOp' = "extract_min" =>
            \A i \in Accesses : 0 <= trace'[i].y /\ trace'[i].y < Len(trace'[i].a)
      ]_vars

\* the sibling list n is in: the nodes met from n on by following right
Siblings(n) == RightFrom(node, n, Len(node))

\* C35: after every insert and every extract_min that returns, the nodes of
\* the sibling list headed by n.child all have parent n, a node with parent p
\* is in the sibling list headed by p.child, and every node of the root list
\* has parent null.
C35_ParentChildConsistent ==
    Returned =>
        /\ \A n \in Stored : \A c \in Siblings(node[n].child) : node[c].parent = n
        /\ \A m \in Stored : node[m].parent # nil =>
               m \in Siblings(node[node[m].parent].child)
        /\ \A r \in Roots : node[r].parent = nil

\* C36: after every insert and every extract_min that returns no counter has
\* wrapped around: size is not below 0 (as a size_t: not 2^64 - 1 or near it)
\* and the degree of every stored node is at least 0 and below the number of
\* stored nodes.
C36_NoWrapAround ==
    Returned =>
        /\ _size >= 0
        /\ \A n \in Stored : 0 <= node[n].degree /\ node[n].degree < _size

\* the heap as its caller can observe it
HeapObserved == << node, destroyed, _min, _size, _allocations, _deallocations >>

\* C37: contains(v) returns, it returns true exactly when a stored node has
\* the key v, and it leaves the heap as it was.
C37_ContainsIsMembership ==
    [][ \A v \in Keys : HeapContains(v) =>
            /\ status' = "ok"
            /\ ret' = (\E n \in Stored : node[n].key = v)
            /\ HeapObserved' = HeapObserved
      ]_vars

\* C38: every array slot a push_back, push_front, pop_back, pop_front or at
\* of a Vector reads or writes, growth included, has an index from 0 up to,
\* and not including, the number of slots of its array, whatever _used and
\* _max are.
C38_VectorSlotsInside ==
    lastOp \in {"push_back", "push_front", "pop_back", "pop_front", "at"} =>
        \A a \in visited : 0 <= a[1] /\ a[1] < a[2]

\* C39: the assignment t = _m of hash tables returns without touching a bin
\* outside the bins of the tables, and leaves t with the size of _m and
\* with find(k) succeeding for exactly the keys k for which it succeeds on
\* _m (an entry is its key: the value is an EmptyClass), however many
\* entries and bins _m has.
C39_HashTableAssignment ==
    [][ lastOp' = "operator=" =>
            /\ status' = "ok"
            /\ HashTable_size(t') = HashTable_size(_m)
            /\ \A k \in SetKeys :
                   Iterator_ne(HashTable_find(t', k), HashTable_end(t'))
                       <=> Iterator_ne(HashTable_find(_m, k), HashTable_end(_m))
      ]_vars
====
